---------------------------- MODULE Spec2Model ----------------------------
(***************************************************************************)
(* A model of watcheye-collector (collector/tasks.py, models.py, admin.py, *)
(* views.py): the schema store, the identifier composer, the type casters, *)
(* the sample reconciler (ResultPacker / add_samples), the SNMP polling    *)
(* cycle (snmp_scheduler / snmp_harvester behind a Celery chord per host)  *)
(* and the push entry point.                                               *)
(*                                                                         *)
(* Text is modelled as TLA+ strings where it is only composed and compared *)
(* (names, identifiers) and as sequences of one-character strings where    *)
(* the code parses it (raw sample values).                                 *)
(***************************************************************************)
EXTENDS Integers, Sequences, FiniteSets, TLC

VARIABLES
    db,         \* the schema store: rows of every table, in storage order
    chords,     \* the polling cycle in flight: host name -> chord state
    jobs,       \* the push-origin add_samples tasks, in the order queued
    cast_call,  \* SpecCast: one application of a caster
    rerun,      \* SpecTwice: the same task delivered twice
    plan_call,  \* SpecPlan: one run of the planner or of the slicer
    http_call,  \* SpecPush: the last request to the push entry point
    packer_call \* SpecPacker: a packer and the calls made on it

vars == <<db, chords, jobs, cast_call, rerun, plan_call, http_call, packer_call>>

(***************************************************************************)
(* Raw sample values: t_sample_value = Union[bool, int, float, str].       *)
(*   bool  : [t |-> "bool",  b |-> BOOLEAN]                                *)
(*   int   : [t |-> "int",   n |-> mantissa, e |-> decimal exponent], the  *)
(*           integer n * 10^e (Python ints are unbounded; e > 0 only for   *)
(*           the integers beyond the range of a double)                    *)
(*   float : [t |-> "float", m |-> tenths], the finite float m / 10        *)
(*   str   : [t |-> "str",   s |-> sequence of characters]                 *)
(***************************************************************************)
BoolV(b) == [t |-> "bool", b |-> b]
IntV(n) == [t |-> "int", n |-> n, e |-> 0]
BigIntV(n, e) == [t |-> "int", n |-> n, e |-> e]
FloatV(m) == [t |-> "float", m |-> m]
StrV(s) == [t |-> "str", s |-> s]

Digits == <<"0", "1", "2", "3", "4", "5", "6", "7", "8", "9">>

IsDigit(c) == \E d \in 1..10 : Digits[d] = c

DigitVal(c) == (CHOOSE d \in 1..10 : Digits[d] = c) - 1

Abs(n) == IF n < 0 THEN -n ELSE n

\* Truncation toward zero, as int(float) does.
TruncDiv(a, b) == IF a >= 0 THEN a \div b ELSE -((-a) \div b)

RECURSIVE NatToChars(_)
NatToChars(n) ==
    IF n < 10 THEN <<Digits[n + 1]>>
    ELSE NatToChars(n \div 10) \o <<Digits[(n % 10) + 1]>>

Zeros(k) == [i \in 1..k |-> "0"]

\* str(int): the decimal digits, with a leading minus sign.
IntToChars(n, e) ==
    (IF n < 0 THEN <<"-">> ELSE <<>>) \o NatToChars(Abs(n))
        \o (IF n = 0 THEN <<>> ELSE Zeros(e))

\* str(float) of the float m / 10: '3.5', '7.0', '-0.5'.
FloatToChars(m) ==
    (IF m < 0 THEN <<"-">> ELSE <<>>) \o NatToChars(Abs(m) \div 10)
        \o <<".">> \o <<Digits[(Abs(m) % 10) + 1]>>

\* str.strip() of the blanks around a literal, as int(str) and float(str) do.
RECURSIVE LStrip(_)
LStrip(s) == IF s # <<>> /\ Head(s) = " " THEN LStrip(Tail(s)) ELSE s

RECURSIVE RStrip(_)
RStrip(s) ==
    IF s # <<>> /\ s[Len(s)] = " " THEN RStrip(SubSeq(s, 1, Len(s) - 1)) ELSE s

Strip(s) == RStrip(LStrip(s))

AllDigits(s) == \A i \in 1..Len(s) : IsDigit(s[i])

RECURSIVE DigitsVal(_)
DigitsVal(s) ==
    IF s = <<>> THEN 0
    ELSE 10 * DigitsVal(SubSeq(s, 1, Len(s) - 1)) + DigitVal(s[Len(s)])

HasSign(s) == s # <<>> /\ Head(s) \in {"+", "-"}

Unsigned(s) == IF HasSign(s) THEN Tail(s) ELSE s

Signed(s, n) == IF HasSign(s) /\ Head(s) = "-" THEN -n ELSE n

\* int(str): blanks stripped, an optional sign, one or more decimal digits.
\* (The model's alphabet has no '_' digit separators.)
IntParse(s) ==
    LET body == Unsigned(Strip(s))
    IN  IF body # <<>> /\ AllDigits(body)
        THEN [ok |-> TRUE, n |-> Signed(Strip(s), DigitsVal(body))]
        ELSE [ok |-> FALSE, n |-> 0]

DotAt(s) == {i \in 1..Len(s) : s[i] = "."}

\* float(str): blanks stripped, an optional sign, digits with at most one
\* '.', at least one digit in all.  The result is in tenths, the model's
\* float resolution.  (The model's alphabet has no exponent, 'inf' or 'nan'
\* literals.)
FloatParse(s) ==
    LET body == Unsigned(Strip(s))
        dots == DotAt(body)
        dot  == IF dots = {} THEN Len(body) + 1 ELSE CHOOSE i \in dots : TRUE
        whole == SubSeq(body, 1, dot - 1)
        frac == SubSeq(body, dot + 1, Len(body))
        tenth == IF frac = <<>> THEN 0 ELSE DigitVal(frac[1])
    IN  IF /\ Cardinality(dots) <= 1
           /\ AllDigits(whole) /\ AllDigits(frac)
           /\ Len(whole) + Len(frac) > 0
        THEN [ok |-> TRUE,
              m |-> Signed(Strip(s), 10 * DigitsVal(whole) + tenth)]
        ELSE [ok |-> FALSE, m |-> 0]

(***************************************************************************)
(* Parameter.TYPES and the casters table: the Python constructors bool,    *)
(* int, float and str.  A caster returns a value or raises; exc names the  *)
(* exception class ("" when none).                                         *)
(***************************************************************************)
Parameter_FLOAT == 0
Parameter_INTEGER == 1
Parameter_STRING == 2
Parameter_BOOLEAN == 3

ParameterTypes ==
    {Parameter_FLOAT, Parameter_INTEGER, Parameter_STRING, Parameter_BOOLEAN}

Returned(v) == [exc |-> "", value |-> v]
Raised(e, v) == [exc |-> e, value |-> v]

\* A boolean caster that takes truthy/falsy forms only.
cast_bool_forms_only(value) ==
    CASE value.t = "bool"  -> Returned(value)
      [] value.t = "int"   ->
            IF value.e = 0 /\ value.n \in {0, 1}
            THEN Returned(BoolV(value.n # 0)) ELSE Raised("ValueError", value)
      [] value.t = "float" ->
            IF value.m \in {0, 10}
            THEN Returned(BoolV(value.m # 0)) ELSE Raised("ValueError", value)
      [] value.t = "str"   ->
            IF value.s \in {<<"0">>, <<"1">>}
            THEN Returned(BoolV(value.s = <<"1">>))
            ELSE Raised("ValueError", value)

\* bool(value): Python truthiness; never raises.
cast_bool(value) ==
    CASE value.t = "bool"  -> Returned(value)
      [] value.t = "int"   -> Returned(BoolV(value.n # 0))
      [] value.t = "float" -> Returned(BoolV(value.m # 0))
      [] value.t = "str"   -> Returned(BoolV(value.s # <<>>))

\* int(value): bool -> 0/1, float truncated toward zero, str parsed.
cast_int(value) ==
    CASE value.t = "bool"  -> Returned(IntV(IF value.b THEN 1 ELSE 0))
      [] value.t = "int"   -> Returned(value)
      [] value.t = "float" -> Returned(IntV(TruncDiv(value.m, 10)))
      [] value.t = "str"   ->
            IF IntParse(value.s).ok
            THEN Returned(IntV(IntParse(value.s).n))
            ELSE Raised("ValueError", value)

\* float(value): an int beyond the double range (1.8e308) raises
\* OverflowError; str parsed.
cast_float(value) ==
    CASE value.t = "bool"  -> Returned(FloatV(IF value.b THEN 10 ELSE 0))
      [] value.t = "int"   ->
            IF value.n # 0 /\ value.e > 308
            THEN Raised("OverflowError", value)
            ELSE Returned(FloatV(10 * value.n))
      [] value.t = "float" -> Returned(value)
      [] value.t = "str"   ->
            IF FloatParse(value.s).ok
            THEN Returned(FloatV(FloatParse(value.s).m))
            ELSE Raised("ValueError", value)

\* str(value): the textual form; never raises.
cast_str(value) ==
    CASE value.t = "bool"  ->
            Returned(StrV(IF value.b THEN <<"T", "r", "u", "e">>
                          ELSE <<"F", "a", "l", "s", "e">>))
      [] value.t = "int"   -> Returned(StrV(IntToChars(value.n, value.e)))
      [] value.t = "float" -> Returned(StrV(FloatToChars(value.m)))
      [] value.t = "str"   -> Returned(value)

casters(type, value) ==
    CASE type = Parameter_BOOLEAN -> cast_bool(value)
      [] type = Parameter_INTEGER -> cast_int(value)
      [] type = Parameter_FLOAT   -> cast_float(value)
      [] type = Parameter_STRING  -> cast_str(value)


(***************************************************************************)
(* The schema store (models.py).  db holds the rows of every table in      *)
(* storage order, which is the order an unordered queryset (.all()) of an  *)
(* unchanged table iterates in:                                            *)
(*   groups      [name, type, oid]     oid: the dotted OID as its sequence *)
(*                                     of components, <<>> when blank      *)
(*   parameters  [group, name, type, indexing, oid]                        *)
(*   tags        [name]                                                    *)
(*   hosts       [name, community]                                         *)
(*   instances   [group, host, oid, name]                                  *)
(*   tag_values  [tag, host, value]                                        *)
(***************************************************************************)
SCALAR == FALSE
TABULAR == TRUE

restricted_names == {"host", "instance"}

EmptyDb ==
    [groups |-> <<>>, parameters |-> <<>>, tags |-> <<>>, hosts |-> <<>>,
     instances |-> <<>>, tag_values |-> <<>>]

Rows(table) == {table[i] : i \in 1..Len(table)}

\* oid_validator: ^(\d+\.)+\d+$ -- at least two dot-separated numbers.
oid_validator(oid) == Len(oid) >= 2

RECURSIVE OidStr(_)
\* The text of a dotted OID: its components joined by '.'.
OidStr(oid) ==
    IF oid = <<>> THEN ""
    ELSE IF Len(oid) = 1 THEN ToString(oid[1])
    ELSE OidStr(SubSeq(oid, 1, Len(oid) - 1)) \o "." \o ToString(oid[Len(oid)])

\* instance.group: the row the foreign key names.
GroupOf(instance) == CHOOSE g \in Rows(db.groups) : g.name = instance.group

\* group.parameters.all()
ParametersOf(group) ==
    SelectSeq(db.parameters, LAMBDA p : p.group = group.name)

\* host.instances.all()
InstancesOf(host) == SelectSeq(db.instances, LAMBDA i : i.host = host.name)

\* host.tag_values.all()
TagValuesOf(host) == SelectSeq(db.tag_values, LAMBDA tv : tv.host = host.name)

\* Host.objects.get(name=host): the rows with that primary key (none: the
\* query raises Host.DoesNotExist).
HostsNamed(name) == {h \in Rows(db.hosts) : h.name = name}

(***************************************************************************)
(* compose_oid: '{group.oid}.{parameter.oid}.{instance.oid}' for a group   *)
(* with an OID, '{group.name}:{parameter.name}:{instance.name}' otherwise. *)
(***************************************************************************)
compose_oid(group, parameter, instance) ==
    IF group.oid # <<>>
    THEN OidStr(group.oid) \o "." \o ToString(parameter.oid)
            \o "." \o ToString(instance.oid)
    ELSE group.name \o ":" \o parameter.name \o ":" \o instance.name

(***************************************************************************)
(* Row creation through the admin site (admin.py): the model's field and   *)
(* uniqueness constraints plus the forms' clean methods.  A rejected form  *)
(* saves nothing.                                                          *)
(***************************************************************************)
MaxRows == 2

GroupInputs ==
    [name : {"G", "T"}, type : {SCALAR, TABULAR}, oid : {<<>>, <<1>>, <<1, 2>>}]

ParameterInputs ==
    [group : {"G", "T"}, name : {"cpu", "idx", "host", "instance"},
     type : {Parameter_FLOAT}, indexing : BOOLEAN, oid : {0, 1}]

HostInputs == [name : {"h1"}, community : {"", "public"}]

InstanceInputs ==
    [group : {"G", "T"}, host : {"h1"}, oid : {0, 1, 2}, name : {"", "eth0"}]

TagInputs == [name : {"site", "idx", "host", "instance"}]

\* GroupAdmin add form: name is the primary key and required; oid is blank
\* or passes oid_validator.
GroupFormValid(row) ==
    /\ row.name # ""
    /\ \A g \in Rows(db.groups) : g.name # row.name
    /\ row.oid = <<>> \/ oid_validator(row.oid)

\* ParameterCollisionForm.clean
ParameterCollisionFormClean(row) ==
    row.indexing =>
        /\ row.name \notin restricted_names
        /\ ~ \E t \in Rows(db.tags) : t.name = row.name

\* AddParameterInline: the ModelForm's own validation, then clean().
ParameterFormValid(row) ==
    /\ row.name # ""
    /\ \A p \in Rows(db.parameters) : p.name # row.name
    /\ \E g \in Rows(db.groups) : g.name = row.group
    /\ row.oid >= 0
    /\ ParameterCollisionFormClean(row)

HostFormValid(row) ==
    /\ row.name # ""
    /\ \A h \in Rows(db.hosts) : h.name # row.name

\* InstanceForm.clean_oid and clean_name, and unique_together.
InstanceFormValid(row) ==
    /\ \E g \in Rows(db.groups) : g.name = row.group
    /\ \E h \in Rows(db.hosts) : h.name = row.host
    /\ LET group == GroupOf(row)
       IN  /\ ~ (row.oid = 0 /\ group.type = TABULAR)
           /\ ~ (row.oid # 0 /\ group.type = SCALAR)
           /\ ~ (row.name = "" /\ group.type = TABULAR)
           /\ ~ (row.name # "" /\ group.type = SCALAR)
    /\ \A i \in Rows(db.instances) :
            ~ (i.group = row.group /\ i.host = row.host /\ i.oid = row.oid)

\* A clean_name that looks at the restricted names only.
TagFormCleanRestricted(row) == row.name \notin restricted_names

\* TagForm.clean_name
TagFormCleanName(row) ==
    /\ row.name \notin restricted_names
    /\ ~ \E p \in Rows(db.parameters) : p.name = row.name /\ p.indexing

TagFormValid(row) ==
    /\ row.name # ""
    /\ \A t \in Rows(db.tags) : t.name # row.name
    /\ TagFormCleanName(row)

Idle == <<chords, jobs, cast_call, rerun, plan_call, http_call, packer_call>>

CreateGroup ==
    \E row \in GroupInputs :
        /\ Len(db.groups) < MaxRows
        /\ GroupFormValid(row)
        /\ db' = [db EXCEPT !.groups = Append(@, row)]
        /\ UNCHANGED Idle

CreateParameter ==
    \E row \in ParameterInputs :
        /\ Len(db.parameters) < MaxRows
        /\ ParameterFormValid(row)
        /\ db' = [db EXCEPT !.parameters = Append(@, row)]
        /\ UNCHANGED Idle

CreateHost ==
    \E row \in HostInputs :
        /\ Len(db.hosts) < MaxRows
        /\ HostFormValid(row)
        /\ db' = [db EXCEPT !.hosts = Append(@, row)]
        /\ UNCHANGED Idle

CreateInstance ==
    \E row \in InstanceInputs :
        /\ Len(db.instances) < MaxRows
        /\ InstanceFormValid(row)
        /\ db' = [db EXCEPT !.instances = Append(@, row)]
        /\ UNCHANGED Idle

CreateTag ==
    \E row \in TagInputs :
        /\ Len(db.tags) < MaxRows
        /\ TagFormValid(row)
        /\ db' = [db EXCEPT !.tags = Append(@, row)]
        /\ UNCHANGED Idle

NoChords == <<>>
NoJobs == <<>>
NoCast == [phase |-> "none"]
NoRerun == [phase |-> "none"]
NoPlan == [phase |-> "none"]
NoHttp == [phase |-> "none"]
NoPacker == [phase |-> "none"]

InitSchema ==
    /\ db = EmptyDb
    /\ chords = NoChords
    /\ jobs = NoJobs
    /\ cast_call = NoCast
    /\ rerun = NoRerun
    /\ plan_call = NoPlan
    /\ http_call = NoHttp
    /\ packer_call = NoPacker

NextSchema ==
    \/ CreateGroup
    \/ CreateParameter
    \/ CreateHost
    \/ CreateInstance
    \/ CreateTag

SpecSchema == InitSchema /\ [][NextSchema]_vars

\* The (parameter, instance) pairs of one host's schema; with the instance's
\* group they are the (group, parameter, instance) triples.
Triples(host) ==
    {t \in Rows(db.parameters) \X Rows(db.instances) :
        t[2].host = host.name /\ t[1].group = t[2].group}

TripleOid(t) == compose_oid(GroupOf(t[2]), t[1], t[2])

(***************************************************************************)
(* C8: compose_oid is injective over every schema the store admits: within *)
(* one host's schema two distinct (group, parameter, instance) triples     *)
(* never yield the same identifier.                                        *)
(***************************************************************************)
C8_ComposeInjective ==
    \A host \in Rows(db.hosts) :
        \A t1, t2 \in Triples(host) :
            t1 # t2 => TripleOid(t1) # TripleOid(t2)

(***************************************************************************)
(* SpecCast: one raw value handed to one caster.                           *)
(***************************************************************************)
CastValues ==
    {BoolV(TRUE), BoolV(FALSE),
     IntV(-2), IntV(0), IntV(1), IntV(7), BigIntV(1, 400),
     FloatV(0), FloatV(35), FloatV(-25), FloatV(70),
     StrV(<<>>), StrV(<<"a", "b", "c">>), StrV(<<"7">>),
     StrV(<<"3", ".", "5">>), StrV(<<"-", "2">>), StrV(<<" ", "7", " ">>),
     StrV(<<".">>), StrV(<<"1", ".", "2", ".", "3">>)}

InitCast ==
    /\ db = EmptyDb
    /\ chords = NoChords
    /\ jobs = NoJobs
    /\ rerun = NoRerun
    /\ plan_call = NoPlan
    /\ http_call = NoHttp
    /\ packer_call = NoPacker
    /\ \E type \in ParameterTypes, value \in CastValues :
            cast_call = [phase |-> "called", type |-> type, value |-> value]

\* target_type(value) for target_type = casters[parameter.type]
ApplyCast ==
    /\ cast_call.phase = "called"
    /\ cast_call' = [phase |-> "done", type |-> cast_call.type,
                     value |-> cast_call.value,
                     result |-> casters(cast_call.type, cast_call.value)]
    /\ UNCHANGED <<db, chords, jobs, rerun, plan_call, http_call, packer_call>>

NextCast == ApplyCast

SpecCast == InitCast /\ [][NextCast]_vars


(***************************************************************************)
(* ResultPacker (tasks.py).  Python dicts are functions from keys to       *)
(* values.  A packer in the middle of a reconciliation is the record       *)
(*   mapping       self.mapping: identifier -> raw value                   *)
(*   _global_tags  self._global_tags, with memo = (it is not None)         *)
(*   log           the logger calls made so far                            *)
(*   exc           the exception propagating out of the packer ("": none)  *)
(*   out           the pairs the last values_for_instance call yielded     *)
(*   ret           the dict the last tags/fields/global_tags call returned *)
(*   uses          one entry per mapping.pop: which identifier, for which  *)
(*                 instance (index in host.instances.all()), into what     *)
(* Text taken from the schema (host name, instance name, tag value) is a   *)
(* str value [t |-> "str", text |-> ...].                                  *)
(***************************************************************************)
TextV(text) == [t |-> "str", text |-> text]

EmptyDict == <<>>

\* d[k] = v
DictSet(d, k, v) ==
    [x \in (DOMAIN d) \cup {k} |-> IF x = k THEN v ELSE d[x]]

\* A pop that leaves the key in the dict.
DictKeep(d, k) == d

\* d.pop(k) for a key of d: the dict without k
DictPop(d, k) == [x \in (DOMAIN d) \ {k} |-> d[x]]

RECURSIVE DictUpdate(_, _)
\* d.update(pairs) / dict(pairs): later pairs win.
DictUpdate(d, pairs) ==
    IF pairs = <<>> THEN d
    ELSE DictUpdate(DictSet(d, pairs[1][1], pairs[1][2]), Tail(pairs))

TypeName(value) == value.t

TargetTypeName(type) ==
    CASE type = Parameter_BOOLEAN -> "bool"
      [] type = Parameter_INTEGER -> "int"
      [] type = Parameter_FLOAT   -> "float"
      [] type = Parameter_STRING  -> "str"

NewPacker(mapping, log) ==
    [mapping |-> mapping, _global_tags |-> EmptyDict, memo |-> FALSE,
     log |-> log, exc |-> "", out |-> <<>>, ret |-> EmptyDict, uses |-> <<>>]

\* The except clause of values_for_instance.
CaughtInValuesForInstance == {"ValueError", "TypeError"}

\* What values_for_instance does with the popped value and the result of
\* the cast: yield the pair, or log the cast the except clause catches; any
\* other exception leaves the generator.
Yield(pk, oid, parameter, k, into, value, result) ==
    LET popped == [pk EXCEPT
                     !.mapping = DictPop(@, oid),
                     !.uses = Append(@, [oid |-> oid, instance |-> k,
                                         into |-> into,
                                         parameter |-> parameter.name,
                                         cast |-> result.exc = ""])]
    IN  IF result.exc = ""
        THEN [popped EXCEPT
                !.out = Append(@, <<parameter.name, result.value>>)]
        ELSE IF result.exc \in CaughtInValuesForInstance
        THEN [popped EXCEPT
                !.log = Append(@, [level |-> "error", event |-> "cannot_cast",
                                   value |-> value,
                                   target_type |->
                                        TargetTypeName(parameter.type),
                                   actual_type |-> TypeName(value)])]
        ELSE [popped EXCEPT !.exc = result.exc]

\* A lookup that casts the value and leaves it in the mapping.
GetAndCast(pk, oid, parameter, k, into) ==
    [Yield(pk, oid, parameter, k, into, pk.mapping[oid],
           casters(parameter.type, pk.mapping[oid]))
        EXCEPT !.mapping = pk.mapping]

\* value = self.mapping.pop(oid); yield parameter.name, caster(value)
PopAndCast(pk, oid, parameter, k, into) ==
    Yield(pk, oid, parameter, k, into, pk.mapping[oid],
          casters(parameter.type, pk.mapping[oid]))

\* The loop step without the test of the indexing flag.
ValuesStepAny(pk, oid, parameter, k, indexing, into) ==
    IF oid \in DOMAIN pk.mapping
    THEN PopAndCast(pk, oid, parameter, k, into)
    ELSE pk

\* One parameter of values_for_instance's loop.
ValuesStep(pk, oid, parameter, k, indexing, into) ==
    IF oid \in DOMAIN pk.mapping /\ parameter.indexing = indexing
    THEN PopAndCast(pk, oid, parameter, k, into)
    ELSE pk

RECURSIVE ValuesLoop(_, _, _, _, _, _, _)
ValuesLoop(pk, parameters, j, instance, k, indexing, into) ==
    IF j > Len(parameters) \/ pk.exc # "" THEN pk
    ELSE ValuesLoop(
            ValuesStep(pk,
                       compose_oid(GroupOf(instance), parameters[j], instance),
                       parameters[j], k, indexing, into),
            parameters, j + 1, instance, k, indexing, into)

\* values_for_instance, consumed to the end: the pairs are left in out.
values_for_instance(pk, instance, k, indexing, into) ==
    ValuesLoop([pk EXCEPT !.out = <<>>], ParametersOf(GroupOf(instance)), 1,
               instance, k, indexing, into)

RECURSIVE TagValueDict(_, _)
\* {tag_value.tag_id: tag_value.value for tag_value in host.tag_values.all()}
TagValueDict(d, tag_values) ==
    IF tag_values = <<>> THEN d
    ELSE TagValueDict(DictSet(d, tag_values[1].tag,
                              TextV(tag_values[1].value)),
                      Tail(tag_values))

RECURSIVE GlobalTagsLoop(_, _, _, _)
RECURSIVE GlobalTagsUpdate(_, _, _, _)
\* for instance in self.host.instances.all(): if scalar: tags.update(...)
GlobalTagsLoop(pk, tags, instances, k) ==
    IF k > Len(instances) \/ pk.exc # "" THEN [pk EXCEPT !.ret = tags]
    ELSE IF GroupOf(instances[k]).type = SCALAR
    THEN GlobalTagsUpdate(values_for_instance(pk, instances[k], k, TRUE,
                                              "global_tags"),
                          tags, instances, k)
    ELSE GlobalTagsLoop(pk, tags, instances, k + 1)

\* tags.update(self.values_for_instance(instance, True))
GlobalTagsUpdate(after, tags, instances, k) ==
    GlobalTagsLoop(after, DictUpdate(tags, after.out), instances, k + 1)

\* A property that computes the global tags anew on every access.
MemoizeNever(after) == after

\* self._global_tags = tags
Memoize(after) ==
    IF after.exc # "" THEN after
    ELSE [after EXCEPT !._global_tags = after.ret, !.memo = TRUE]

\* The global_tags property: memoized in _global_tags.
global_tags(pk, host) ==
    IF pk.memo THEN [pk EXCEPT !.ret = pk._global_tags]
    ELSE Memoize(GlobalTagsLoop(
                    pk,
                    DictSet(TagValueDict(EmptyDict, TagValuesOf(host)),
                            "host", TextV(host.name)),
                    InstancesOf(host), 1))

\* A merge where the global tags overwrite the instance's own.
TabularTagsGlobalWins(t, after, instance) ==
    IF after.exc # "" THEN after
    ELSE [after EXCEPT
            !.ret = DictSet([x \in DOMAIN t
                                \cup {after.out[n][1] :
                                        n \in 1..Len(after.out)} |->
                                IF x \in DOMAIN t THEN t[x]
                                ELSE DictUpdate(EmptyDict, after.out)[x]],
                            "instance", TextV(instance.name))]

\* t.update(values_for_instance(instance, True)); t['instance'] = name
TabularTags(t, after, instance) ==
    IF after.exc # "" THEN after
    ELSE [after EXCEPT
            !.ret = DictSet(DictUpdate(t, after.out),
                            "instance", TextV(instance.name))]

\* Tags that never consult the indexing values of the instance.
TagsFromGlobal(g, instance, k) == g

\* t = dict(self.global_tags); if instance.group.type: ...
TagsFrom(g, instance, k) ==
    IF g.exc # "" THEN g
    ELSE IF GroupOf(instance).type = TABULAR
    THEN TabularTags(g.ret, values_for_instance(g, instance, k, TRUE, "tags"),
                     instance)
    ELSE g

\* tags(instance): a copy of the global tags; a tabular instance adds its
\* indexing values and its name.
tags(pk, host, instance, k) == TagsFrom(global_tags(pk, host), instance, k)

\* dict(self.values_for_instance(instance, False))
FieldsFrom(after) ==
    IF after.exc # "" THEN after
    ELSE [after EXCEPT !.ret = DictUpdate(EmptyDict, after.out)]

\* fields(instance)
fields(pk, instance, k) ==
    FieldsFrom(values_for_instance(pk, instance, k, FALSE, "fields"))

RECURSIVE SnmpMapping(_, _)
\* {oid: value for sample in samples for oid, value in sample}; samples is
\* the concatenation of the chunks here.
SnmpMapping(d, pairs) ==
    IF pairs = <<>> THEN d
    ELSE SnmpMapping(DictSet(d, pairs[1][1], pairs[1][2]), Tail(pairs))

RECURSIVE Concat(_)
Concat(seqs) == IF seqs = <<>> THEN <<>> ELSE Head(seqs) \o Concat(Tail(seqs))

\* ResultPacker.snmp
snmp(host, samples) == NewPacker(SnmpMapping(EmptyDict, Concat(samples)), <<>>)

RECURSIVE SamplesTreeFirst(_, _)
\* A tree that keeps the first value given for a pair.
SamplesTreeFirst(tree, samples) ==
    IF samples = <<>> THEN tree
    ELSE SamplesTreeFirst(IF <<samples[1][1], samples[1][2]>> \in DOMAIN tree
                          THEN tree
                          ELSE DictSet(tree, <<samples[1][1], samples[1][2]>>,
                                       samples[1][3]),
                          Tail(samples))

RECURSIVE SamplesTree(_, _)
\* samples_tree[parameter][instance] = value, as one dict keyed by the pair
SamplesTree(tree, samples) ==
    IF samples = <<>> THEN tree
    ELSE SamplesTree(DictSet(tree, <<samples[1][1], samples[1][2]>>,
                             samples[1][3]),
                     Tail(samples))

\* The (instance, parameter) pairs in the order of http's nested loop.
RECURSIVE SchemaPairs(_, _)
SchemaPairs(instances, k) ==
    IF k > Len(instances) THEN <<>>
    ELSE LET parameters == ParametersOf(GroupOf(instances[k]))
         IN  [j \in 1..Len(parameters) |-> <<instances[k], parameters[j]>>]
                \o SchemaPairs(instances, k + 1)

\* One (instance, parameter) pair of http's nested loop.
HttpStep(acc, key, oid) ==
    IF key \in DOMAIN acc.tree
    THEN [acc EXCEPT !.tree = DictPop(@, key),
                     !.mapping = DictSet(@, oid, acc.tree[key])]
    ELSE [acc EXCEPT !.missing = Append(@, key)]

RECURSIVE HttpLoop(_, _)
\* acc = [tree, mapping, missing]; pairs[n] = <<instance, parameter>>
HttpLoop(acc, pairs) ==
    IF pairs = <<>> THEN acc
    ELSE HttpLoop(HttpStep(acc, <<pairs[1][2].name, pairs[1][1].name>>,
                           compose_oid(GroupOf(pairs[1][1]), pairs[1][2],
                                       pairs[1][1])),
                  Tail(pairs))

\* logger.error for the missing samples, logger.warning for the unknown
\* ones.  The unknown samples are logged as a set: the order of the
\* elements in the log line is not modelled.
HttpPacker(acc) ==
    NewPacker(acc.mapping,
              (IF acc.missing # <<>>
               THEN <<[level |-> "error", event |-> "missing_samples",
                       elements |-> acc.missing]>>
               ELSE <<>>)
              \o (IF DOMAIN acc.tree # {}
                  THEN <<[level |-> "warning", event |-> "unknown_samples",
                          elements |-> DOMAIN acc.tree]>>
                  ELSE <<>>))

\* ResultPacker.http
http(host, samples) ==
    HttpPacker(HttpLoop([tree |-> SamplesTree(EmptyDict, samples),
                         mapping |-> EmptyDict, missing |-> <<>>],
                        SchemaPairs(InstancesOf(host), 1)))

(***************************************************************************)
(* add_samples.  The outcome of one invocation is the record               *)
(*   found    the host was in the schema                                   *)
(*   packer   a ResultPacker was built                                     *)
(*   mapping0 the packer's mapping as built                                *)
(*   mapping  the packer's mapping when add_samples ended                  *)
(*   points   the points built by the loop                                 *)
(*   emitted  the indexes of the instances the points were built for       *)
(*   writes   the points arguments of the client.write_points calls        *)
(*   hints    the other arguments of those calls                           *)
(*   log, uses, exc   as in the packer; exc # "": the task raised          *)
(*   global_tags  the packer's memoized _global_tags                       *)
(***************************************************************************)
\* A test that every dict passes.
TruthyAlways(d) == TRUE

\* if fields: -- a dict is true when it is not empty
Truthy(d) == DOMAIN d # {}

\* if fields: points.append({'measurement': ..., 'fields': ..., 'tags': ...})
AppendPoint(acc, f, t, instance, k) ==
    IF t.exc # "" THEN [acc EXCEPT !.pk = t]
    ELSE IF Truthy(f.ret)
    THEN [pk |-> t,
          points |-> Append(acc.points,
                            [measurement |-> GroupOf(instance).name,
                             fields |-> f.ret, tags |-> t.ret]),
          emitted |-> Append(acc.emitted, k)]
    ELSE [acc EXCEPT !.pk = t]

\* fields = packer.fields(instance); tags = packer.tags(instance)
TagsAfterFields(acc, f, host, instance, k) ==
    IF f.exc # "" THEN [acc EXCEPT !.pk = f]
    ELSE AppendPoint(acc, f, tags(f, host, instance, k), instance, k)

RECURSIVE PointsLoop(_, _, _, _)
\* for instance in host.instances.all(); acc = [pk, points, emitted]
PointsLoop(acc, host, instances, k) ==
    IF k > Len(instances) \/ acc.pk.exc # "" THEN acc
    ELSE PointsLoop(TagsAfterFields(acc, fields(acc.pk, instances[k], k),
                                    host, instances[k], k),
                    host, instances, k + 1)

HostNotFound(name) ==
    [found |-> FALSE, packer |-> FALSE, mapping0 |-> EmptyDict,
     mapping |-> EmptyDict, points |-> <<>>, emitted |-> <<>>,
     writes |-> <<>>, hints |-> <<>>, uses |-> <<>>, exc |-> "",
     global_tags |-> EmptyDict,
     log |-> <<[level |-> "error", event |-> "host_not_found",
                host |-> name]>>]

\* if points: client.write_points(points=points, ...)
WritePoints(points) == IF points # <<>> THEN <<points>> ELSE <<>>

\* The configured INFLUXDB_BATCH_SIZE setting (10000 when not configured).
INFLUXDB_BATCH_SIZE == 2

\* A call that asks the client for no batching.
WriteHintUnbatched == [time_precision |-> "m", batch_size |-> 0]

\* The keyword arguments of the write_points call besides the points.
WriteHint == [time_precision |-> "m", batch_size |-> INFLUXDB_BATCH_SIZE]

\* The keyword arguments of each write_points call made.
WriteHints(writes) == [w \in 1..Len(writes) |-> WriteHint]

\* An end of add_samples that refuses a mapping that was not drained.
OutcomeStrict(packer, acc) ==
    [found |-> TRUE, packer |-> TRUE, mapping0 |-> packer.mapping,
     mapping |-> acc.pk.mapping, points |-> acc.points,
     emitted |-> acc.emitted,
     writes |-> IF acc.pk.exc # "" \/ DOMAIN acc.pk.mapping # {}
                THEN <<>> ELSE WritePoints(acc.points),
     hints |-> <<>>,
     uses |-> acc.pk.uses,
     exc |-> IF acc.pk.exc = "" /\ DOMAIN acc.pk.mapping # {}
             THEN "ValueError" ELSE acc.pk.exc,
     global_tags |-> acc.pk._global_tags,
     log |-> acc.pk.log]

\* The end of add_samples: the write, and the warning for what the mapping
\* still holds.  An exception leaves the task before both.
Outcome(packer, acc) ==
    [found |-> TRUE, packer |-> TRUE, mapping0 |-> packer.mapping,
     mapping |-> acc.pk.mapping, points |-> acc.points,
     emitted |-> acc.emitted,
     writes |-> IF acc.pk.exc # "" THEN <<>> ELSE WritePoints(acc.points),
     hints |-> IF acc.pk.exc # "" THEN <<>>
               ELSE WriteHints(WritePoints(acc.points)),
     uses |-> acc.pk.uses, exc |-> acc.pk.exc,
     global_tags |-> acc.pk._global_tags,
     log |-> IF acc.pk.exc = "" /\ DOMAIN acc.pk.mapping # {}
             THEN Append(acc.pk.log,
                         [level |-> "warning", event |-> "not_indexed_fields",
                          fields |-> DOMAIN acc.pk.mapping])
             ELSE acc.pk.log]

Reconcile(host, packer) ==
    Outcome(packer,
            PointsLoop([pk |-> packer, points |-> <<>>, emitted |-> <<>>],
                       host, InstancesOf(host), 1))

\* packer = ResultPacker.snmp(...) if mode else ResultPacker.http(...)
Pack(host, samples, mode) ==
    Reconcile(host, IF mode THEN snmp(host, samples) ELSE http(host, samples))

\* add_samples without its except clause: Host.DoesNotExist leaves the task.
add_samples_uncaught(samples, name, mode) ==
    IF HostsNamed(name) = {}
    THEN [HostNotFound(name) EXCEPT !.exc = "DoesNotExist", !.log = <<>>]
    ELSE Pack(CHOOSE h \in HostsNamed(name) : TRUE, samples, mode)

\* add_samples(samples, host, mode): mode TRUE is SNMP, FALSE is HTTP.
add_samples(samples, name, mode) ==
    IF HostsNamed(name) = {} THEN HostNotFound(name)
    ELSE Pack(CHOOSE h \in HostsNamed(name) : TRUE, samples, mode)

(***************************************************************************)
(* The polling side: aggregator, chunks, snmp_scheduler, snmp_harvester.   *)
(***************************************************************************)
SNMP_MAX_PARAMETERS_IN_QUERY == 32

RECURSIVE HostOidsAll(_, _)
\* The list comprehension without its condition on the group's OID.
HostOidsAll(instances, k) ==
    IF k > Len(instances) THEN <<>>
    ELSE [j \in 1..Len(ParametersOf(GroupOf(instances[k]))) |->
            compose_oid(GroupOf(instances[k]),
                        ParametersOf(GroupOf(instances[k]))[j], instances[k])]
            \o HostOidsAll(instances, k + 1)

RECURSIVE HostOids(_, _)
\* aggregator's list comprehension for one host
HostOids(instances, k) ==
    IF k > Len(instances) THEN <<>>
    ELSE LET group == GroupOf(instances[k])
             parameters == ParametersOf(group)
         IN  (IF group.oid # <<>>
              THEN [j \in 1..Len(parameters) |->
                        compose_oid(group, parameters[j], instances[k])]
              ELSE <<>>)
                \o HostOids(instances, k + 1)

RECURSIVE AggregatorLoop(_, _)
AggregatorLoop(hosts, k) ==
    IF k > Len(hosts) THEN <<>>
    ELSE LET parameters == HostOids(InstancesOf(hosts[k]), 1)
         IN  (IF parameters # <<>>
              THEN <<[host |-> hosts[k].name, parameters |-> parameters]>>
              ELSE <<>>)
                \o AggregatorLoop(hosts, k + 1)

\* aggregator(): Host.objects.exclude(community=''), one entry per host with
\* at least one identifier.
aggregator ==
    AggregatorLoop(SelectSeq(db.hosts, LAMBDA h : h.community # ""), 1)

RECURSIVE chunks_full(_)
\* A slicer that stops before a last slice that is not full.
chunks_full(vector) ==
    IF Len(vector) < SNMP_MAX_PARAMETERS_IN_QUERY THEN <<>>
    ELSE <<SubSeq(vector, 1, SNMP_MAX_PARAMETERS_IN_QUERY)>>
            \o chunks_full(SubSeq(vector, SNMP_MAX_PARAMETERS_IN_QUERY + 1,
                                  Len(vector)))

RECURSIVE chunks(_)
\* chunks(vector): vector[i:i + SNMP_MAX_PARAMETERS_IN_QUERY] for
\* i in range(0, len(vector), SNMP_MAX_PARAMETERS_IN_QUERY)
chunks(vector) ==
    IF vector = <<>> THEN <<>>
    ELSE IF Len(vector) <= SNMP_MAX_PARAMETERS_IN_QUERY THEN <<vector>>
    ELSE <<SubSeq(vector, 1, SNMP_MAX_PARAMETERS_IN_QUERY)>>
            \o chunks(SubSeq(vector, SNMP_MAX_PARAMETERS_IN_QUERY + 1,
                             Len(vector)))

(***************************************************************************)
(* The schema the system runs on in Spec: host h1 with the scalar group G  *)
(* (indexing integer idx, float cpu, integer mem), the tabular group T     *)
(* (float temp, indexing string label) and the scalar group S without OID  *)
(* (indexing integer bacon); host h2 with BigHostInstances instances of    *)
(* the tabular group W (integer load), more than one chunk; host h3        *)
(* without community.                                                      *)
(***************************************************************************)
BigHostInstances == 33

FixtureGroups ==
    <<[name |-> "G", type |-> SCALAR, oid |-> <<1, 2>>],
      [name |-> "T", type |-> TABULAR, oid |-> <<1, 3>>],
      [name |-> "W", type |-> TABULAR, oid |-> <<1, 4>>],
      [name |-> "S", type |-> SCALAR, oid |-> <<>>]>>

FixtureParameters ==
    <<[group |-> "G", name |-> "idx", type |-> Parameter_INTEGER,
       indexing |-> TRUE, oid |-> 1],
      [group |-> "G", name |-> "cpu", type |-> Parameter_FLOAT,
       indexing |-> FALSE, oid |-> 2],
      [group |-> "G", name |-> "mem", type |-> Parameter_INTEGER,
       indexing |-> FALSE, oid |-> 3],
      [group |-> "T", name |-> "temp", type |-> Parameter_FLOAT,
       indexing |-> FALSE, oid |-> 1],
      [group |-> "T", name |-> "label", type |-> Parameter_STRING,
       indexing |-> TRUE, oid |-> 2],
      [group |-> "W", name |-> "load", type |-> Parameter_INTEGER,
       indexing |-> FALSE, oid |-> 1],
      [group |-> "S", name |-> "bacon", type |-> Parameter_INTEGER,
       indexing |-> TRUE, oid |-> 0]>>

FixtureHosts ==
    <<[name |-> "h1", community |-> "public"],
      [name |-> "h2", community |-> "public"],
      [name |-> "h3", community |-> ""]>>

InstanceG == [group |-> "G", host |-> "h1", oid |-> 0, name |-> ""]
InstanceT == [group |-> "T", host |-> "h1", oid |-> 1, name |-> "eth0"]
InstanceS == [group |-> "S", host |-> "h1", oid |-> 0, name |-> ""]

FixtureInstances ==
    <<InstanceT, InstanceS, InstanceG>>
    \o [i \in 1..BigHostInstances |->
            [group |-> "W", host |-> "h2", oid |-> i,
             name |-> "if" \o ToString(i)]]
    \o <<[group |-> "G", host |-> "h3", oid |-> 0, name |-> ""]>>

Fixture ==
    [groups |-> FixtureGroups, parameters |-> FixtureParameters,
     tags |-> <<[name |-> "site"]>>, hosts |-> FixtureHosts,
     instances |-> FixtureInstances,
     tag_values |-> <<[tag |-> "site", host |-> "h1", value |-> "lab"]>>]

(***************************************************************************)
(* The admin site deleting rows while the system runs (HostAdmin and its   *)
(* InstanceInline): the schema may change between planning and             *)
(* reconciliation.                                                         *)
(***************************************************************************)
DeleteHostInputs == {"h1"}
DeleteInstanceInputs == {InstanceT}

Running == <<chords, jobs>>

\* on_delete=CASCADE on Instance.host and TagValue.host
delete_host ==
    \E name \in DeleteHostInputs :
        /\ HostsNamed(name) # {}
        /\ db' = [db EXCEPT
                    !.hosts = SelectSeq(@, LAMBDA h : h.name # name),
                    !.instances = SelectSeq(@, LAMBDA i : i.host # name),
                    !.tag_values = SelectSeq(@, LAMBDA tv : tv.host # name)]
        /\ UNCHANGED <<Running, cast_call, rerun, plan_call, http_call, packer_call>>

delete_instance ==
    \E row \in DeleteInstanceInputs :
        /\ row \in Rows(db.instances)
        /\ db' = [db EXCEPT !.instances = SelectSeq(@, LAMBDA i : i # row)]
        /\ UNCHANGED <<Running, cast_call, rerun, plan_call, http_call, packer_call>>

(***************************************************************************)
(* The polling transport.  getCmd yields (error_indication, error_status,  *)
(* error_index, var_binds): a failure of the transport (a timeout, an      *)
(* unreachable agent) is reported in error_indication with no var_binds;   *)
(* building or sending the request may also raise.  A response holds the   *)
(* requested identifiers, each with a value or with a Null (no such        *)
(* object).  The agents answer PollValue for every identifier, with at     *)
(* most one of the first MaxOddPosition identifiers answered differently.  *)
(***************************************************************************)
Null == [t |-> "Null"]

MaxOddPosition == 5

PollValue == IntV(7)
OddValues == {StrV(<<"a", "b", "c">>), Null}

Min(a, b) == IF a <= b THEN a ELSE b

VarBinds(parameters, base, pos, odd) ==
    [j \in 1..Len(parameters) |->
        <<parameters[j], IF j = pos THEN odd ELSE base>>]

TransportOutcomes(parameters) ==
    {[raised |-> FALSE, error_indication |-> FALSE,
      var_binds |-> VarBinds(parameters, PollValue, pos, odd)] :
        pos \in 0..Min(Len(parameters), MaxOddPosition),
        odd \in OddValues}
    \cup {[raised |-> FALSE, error_indication |-> TRUE, var_binds |-> <<>>],
          [raised |-> TRUE, error_indication |-> FALSE, var_binds |-> <<>>]}

\* A transport error, however it is reported.
TransportFailed(outcome) == outcome.raised \/ outcome.error_indication

\* snmp_harvester's return value for a reply of getCmd: the pairs of the
\* var_binds that are not Null.  The error fields are not looked at.
harvester_result(outcome) ==
    SelectSeq(outcome.var_binds, LAMBDA vb : vb[2] # Null)

(***************************************************************************)
(* snmp_scheduler: one chord per planned host -- a header of one           *)
(* snmp_harvester task per chunk, and the body add_samples.s(host=host).   *)
(* Celery runs the body once, with the list of the header's results in     *)
(* header order, when every header task has succeeded; a header task that  *)
(* raises fails the chord and the body never runs.                         *)
(*   chords[host] = [header |-> <<[parameters, state, outcome, result]>>,  *)
(*                   body |-> [state, outcome]]                            *)
(***************************************************************************)
PENDING == "PENDING"
SUCCESS == "SUCCESS"
FAILURE == "FAILURE"

NoOutcome == [found |-> FALSE, packer |-> FALSE, mapping0 |-> EmptyDict,
              mapping |-> EmptyDict, points |-> <<>>, emitted |-> <<>>,
              writes |-> <<>>, uses |-> <<>>, exc |-> "", log |-> <<>>]

NoTransport == [raised |-> FALSE, error_indication |-> FALSE,
                var_binds |-> <<>>]

Chord(parameters) ==
    LET cs == chunks(parameters)
    IN  [header |-> [c \in 1..Len(cs) |->
                        [parameters |-> cs[c], state |-> PENDING,
                         outcome |-> NoTransport, result |-> <<>>]],
         body |-> [state |-> PENDING, outcome |-> NoOutcome]]

\* The exploration runs one unit of work at a time: a polling cycle or a
\* push submission.  The two share no mutable state (the schema is only
\* read, every packer is private to its invocation).
Busy == chords # NoChords \/ jobs # NoJobs

snmp_scheduler ==
    /\ ~Busy
    /\ LET plan == aggregator
       IN  /\ plan # <<>>
           /\ chords' = [name \in {plan[k].host : k \in 1..Len(plan)} |->
                            Chord((CHOOSE e \in Rows(plan) : e.host = name)
                                    .parameters)]
    /\ UNCHANGED <<db, jobs, cast_call, rerun, plan_call, http_call, packer_call>>

snmp_harvester ==
    \E name \in DOMAIN chords :
      \E c \in 1..Len(chords[name].header) :
        /\ chords[name].header[c].state = PENDING
        /\ \E outcome \in TransportOutcomes(chords[name].header[c].parameters) :
              chords' = [chords EXCEPT ![name].header[c] =
                            [parameters |-> @.parameters,
                             state |-> IF outcome.raised THEN FAILURE
                                       ELSE SUCCESS,
                             outcome |-> outcome,
                             result |-> IF outcome.raised THEN <<>>
                                        ELSE harvester_result(outcome)]]
        /\ UNCHANGED <<db, jobs, cast_call, rerun, plan_call, http_call, packer_call>>

\* A body released by the first header task that succeeds.
ChordReadyAny(chord) ==
    \E c \in 1..Len(chord.header) : chord.header[c].state = SUCCESS

\* The chord's barrier: every header task has succeeded.
ChordReady(chord) ==
    \A c \in 1..Len(chord.header) : chord.header[c].state = SUCCESS

HeaderResults(chord) ==
    [c \in 1..Len(chord.header) |-> chord.header[c].result]

TaskState(outcome) == IF outcome.exc # "" THEN FAILURE ELSE SUCCESS

\* The chord body: add_samples(results, host=host), mode = True.
chord_body ==
    \E name \in DOMAIN chords :
        /\ chords[name].body.state = PENDING
        /\ ChordReady(chords[name])
        /\ LET outcome == add_samples(HeaderResults(chords[name]), name, TRUE)
           IN  chords' = [chords EXCEPT ![name].body =
                            [state |-> TaskState(outcome),
                             outcome |-> outcome]]
        /\ UNCHANGED <<db, jobs, cast_call, rerun, plan_call, http_call, packer_call>>

ChordOver(chord) ==
    /\ \A c \in 1..Len(chord.header) : chord.header[c].state # PENDING
    /\ chord.body.state # PENDING
        \/ \E c \in 1..Len(chord.header) : chord.header[c].state = FAILURE

\* The results of a finished cycle expire from the result backend.
expire_cycle ==
    /\ chords # NoChords
    /\ \A name \in DOMAIN chords : ChordOver(chords[name])
    /\ chords' = NoChords
    /\ UNCHANGED <<db, jobs, cast_call, rerun, plan_call, http_call, packer_call>>

(***************************************************************************)
(* The push side: views.index validates the body with SeriesForm and       *)
(* queues add_samples(samples, host, mode=False, timestamp).               *)
(***************************************************************************)
MaxSamples == 2

PushValues == {IntV(1), StrV(<<"a", "b", "c">>), BigIntV(1, 400)}

\* [parameter, instance, value]
PushSamples ==
    {<<"cpu", "", v>> : v \in PushValues}
    \cup {<<p, "", v>> : p \in {"mem", "idx"},
                         v \in {IntV(1), StrV(<<"a", "b", "c">>)}}
    \cup {<<"temp", "eth0", IntV(1)>>, <<"bacon", "", IntV(1)>>,
          <<"zzz", "", IntV(1)>>}

SeqsUpTo(S, n) == UNION {[1..m -> S] : m \in 0..n}

\* The sequences without repetition of at most n elements of S.
InjectiveSeqs(S, n) ==
    {q \in SeqsUpTo(S, n) : \A i, j \in 1..Len(q) : i # j => q[i] # q[j]}

\* A request body: malformed (not JSON), or a JSON object with or without
\* its required elements.
Payloads ==
    {[json |-> FALSE, complete |-> FALSE, host |-> "", samples |-> <<>>]}
    \cup {[json |-> TRUE, complete |-> FALSE, host |-> "h1",
           samples |-> <<>>]}
    \cup [json : {TRUE}, complete : {TRUE}, host : {"h1", "nohost"},
          samples : SeqsUpTo(PushSamples, MaxSamples)]

\* SeriesForm(data=payload).is_valid()
SeriesFormValid(payload) == payload.complete

index ==
    \E payload \in Payloads :
        /\ ~Busy
        /\ IF payload.json /\ SeriesFormValid(payload)
           THEN jobs' = Append(jobs,
                            [samples |-> payload.samples,
                             host |-> payload.host, mode |-> FALSE,
                             state |-> PENDING, outcome |-> NoOutcome])
           ELSE jobs' = jobs
        /\ UNCHANGED <<db, chords, cast_call, rerun, plan_call, http_call, packer_call>>

\* A worker runs a queued add_samples task.
run_add_samples ==
    \E k \in 1..Len(jobs) :
        /\ jobs[k].state = PENDING
        /\ LET outcome == add_samples(jobs[k].samples, jobs[k].host,
                                      jobs[k].mode)
           IN  jobs' = [jobs EXCEPT ![k].state = TaskState(outcome),
                                    ![k].outcome = outcome]
        /\ UNCHANGED <<db, chords, cast_call, rerun, plan_call, http_call, packer_call>>

\* The result of a finished task expires from the result backend.
expire_job ==
    /\ jobs # NoJobs
    /\ jobs[1].state # PENDING
    /\ jobs' = Tail(jobs)
    /\ UNCHANGED <<db, chords, cast_call, rerun, plan_call, http_call, packer_call>>

Init ==
    /\ db = Fixture
    /\ chords = NoChords
    /\ jobs = NoJobs
    /\ cast_call = NoCast
    /\ rerun = NoRerun
    /\ plan_call = NoPlan
    /\ http_call = NoHttp
    /\ packer_call = NoPacker

Next ==
    \/ snmp_scheduler
    \/ snmp_harvester
    \/ chord_body
    \/ expire_cycle
    \/ index
    \/ run_add_samples
    \/ expire_job
    \/ delete_host
    \/ delete_instance

Spec == Init /\ [][Next]_vars

(***************************************************************************)
(* SpecCycle: polling cycles in which every chunk poll succeeds, on the    *)
(* schema of Spec and on the same schema with a second parameter of T      *)
(* registered under the OID suffix of temp (Parameter.oid is not unique    *)
(* within a group).  The workers run every task that is queued: weak       *)
(* fairness on the header tasks and on the chord bodies.                   *)
(***************************************************************************)
SharedOidParameters ==
    FixtureParameters
    \o <<[group |-> "T", name |-> "volt", type |-> Parameter_FLOAT,
          indexing |-> FALSE, oid |-> 1]>>

CycleSchemas ==
    {Fixture, [Fixture EXCEPT !.parameters = SharedOidParameters]}

\* snmp_harvester when getCmd answers without raising and without an
\* error indication.
snmp_harvester_succeeds ==
    \E name \in DOMAIN chords :
      \E c \in 1..Len(chords[name].header) :
        /\ chords[name].header[c].state = PENDING
        /\ \E outcome \in TransportOutcomes(chords[name].header[c].parameters) :
              /\ ~TransportFailed(outcome)
              /\ chords' = [chords EXCEPT ![name].header[c] =
                              [parameters |-> @.parameters,
                               state |-> SUCCESS,
                               outcome |-> outcome,
                               result |-> harvester_result(outcome)]]
        /\ UNCHANGED <<db, jobs, cast_call, rerun, plan_call, http_call, packer_call>>

InitCycle ==
    /\ db \in CycleSchemas
    /\ chords = NoChords
    /\ jobs = NoJobs
    /\ cast_call = NoCast
    /\ rerun = NoRerun
    /\ plan_call = NoPlan
    /\ http_call = NoHttp
    /\ packer_call = NoPacker

NextCycle ==
    \/ snmp_scheduler
    \/ snmp_harvester_succeeds
    \/ chord_body
    \/ expire_cycle

\* ENABLED <<chord_body>>_vars: a body is queued when every header task of
\* its chord has succeeded, and running it changes the chord's body.
BodyDue ==
    \E name \in DOMAIN chords :
        chords[name].body.state = PENDING /\ ChordReady(chords[name])

\* WF_vars(snmp_harvester_succeeds) /\ WF_vars(chord_body), the second
\* written out with BodyDue for ENABLED <<chord_body>>_vars.
SpecCycle ==
    /\ InitCycle
    /\ [][NextCycle]_vars
    /\ WF_vars(snmp_harvester_succeeds)
    /\ ([]<>~BodyDue \/ []<><<chord_body>>_vars)

\* Every finished add_samples invocation the state still holds.
Outcomes ==
    {chords[name].body.outcome :
        name \in {n \in DOMAIN chords : chords[n].body.state # PENDING}}
    \cup {jobs[k].outcome : k \in {j \in 1..Len(jobs) : jobs[j].state # PENDING}}

\* The reading of "a conservative coercion" the raw values of the model
\* allow: boolean takes a bool, the numbers 0 and 1 and the texts '0', '1';
\* integer and float take what is or parses as a number of that type;
\* string takes a str.
Conservative(type, value) ==
    CASE type = Parameter_BOOLEAN ->
            \/ value.t = "bool"
            \/ value.t = "int" /\ value.e = 0 /\ value.n \in {0, 1}
            \/ value.t = "float" /\ value.m \in {0, 10}
            \/ value.t = "str" /\ value.s \in {<<"0">>, <<"1">>}
      [] type = Parameter_INTEGER ->
            \/ value.t \in {"bool", "int"}
            \/ value.t = "float" /\ value.m % 10 = 0
            \/ value.t = "str" /\ IntParse(value.s).ok
      [] type = Parameter_FLOAT ->
            \/ value.t \in {"bool", "int", "float"}
            \/ value.t = "str" /\ FloatParse(value.s).ok
      [] type = Parameter_STRING -> value.t = "str"

(***************************************************************************)
(* C7 as stated: a cast succeeds exactly under the conservative coercion   *)
(* (boolean: truthy/falsy forms only; integer/float: numeric parse;        *)
(* string: identity on strings); every other pair is a cast failure.       *)
(***************************************************************************)
C7_ConservativeOnly ==
    cast_call.phase = "done" =>
        (cast_call.result.exc = ""
            <=> Conservative(cast_call.type, cast_call.value))

(***************************************************************************)
(* C7 as amended: the casters are the Python constructors.  boolean and    *)
(* string never fail (truthiness; the textual form, the identity on a      *)
(* str); integer succeeds on every bool, int and finite float (truncated   *)
(* toward zero) and on a str exactly when it parses as an integer; float   *)
(* succeeds on every bool and float, on an int within the range of a       *)
(* double, and on a str exactly when it parses as a float.  A str that     *)
(* does not parse raises ValueError; an int beyond the double range cast   *)
(* to float raises OverflowError.                                          *)
(***************************************************************************)
C7_PythonConstructors ==
    cast_call.phase = "done" =>
        LET type == cast_call.type
            value == cast_call.value
            result == cast_call.result
        IN  /\ type \in {Parameter_BOOLEAN, Parameter_STRING} =>
                    result.exc = ""
            /\ type = Parameter_STRING /\ value.t = "str" =>
                    result.value = value
            /\ type = Parameter_BOOLEAN /\ value.t = "str" =>
                    result.value = BoolV(Len(value.s) > 0)
            /\ type = Parameter_INTEGER =>
                    /\ value.t # "str" => result.exc = ""
                    /\ value.t = "float" =>
                            result.value = IntV(TruncDiv(value.m, 10))
                    /\ value.t = "str" =>
                            result.exc = IF IntParse(value.s).ok
                                         THEN "" ELSE "ValueError"
            /\ type = Parameter_FLOAT =>
                    /\ value.t \in {"bool", "float"} => result.exc = ""
                    /\ value.t = "int" =>
                            result.exc = IF value.n # 0 /\ value.e > 308
                                         THEN "OverflowError" ELSE ""
                    /\ value.t = "str" =>
                            result.exc = IF FloatParse(value.s).ok
                                         THEN "" ELSE "ValueError"

\* A text that is no truthy/falsy form was cast to boolean, and a number
\* was cast to string.
C7_Witness ==
    /\ cast_call.phase = "done"
    /\ cast_call.type = Parameter_BOOLEAN
    /\ cast_call.value = StrV(<<"a", "b", "c">>)
    /\ cast_call.result = Returned(BoolV(TRUE))

(***************************************************************************)
(* SpecTwice: the same raw sample set reconciled twice against an          *)
(* unchanged schema.  The caller's samples object is part of the state:    *)
(* the second run reads it as the first run left it.                       *)
(***************************************************************************)
\* The chunk results of one poll of a planned host.
PollSamples(parameters) ==
    {[c \in 1..Len(chunks(parameters)) |->
        harvester_result(
            [raised |-> FALSE, error_indication |-> FALSE,
             var_binds |-> VarBinds(chunks(parameters)[c], PollValue, pos,
                                    odd)])] :
        pos \in 0..MaxOddPosition, odd \in OddValues}

TwiceInputs ==
    UNION {[samples : PollSamples(e.parameters), host : {e.host},
            mode : {TRUE}] : e \in Rows(aggregator)}
    \cup [samples : SeqsUpTo(PushSamples, MaxSamples),
          host : {"h1", "nohost"}, mode : {FALSE}]

\* A mutation of the caller's list by a run: every sample is taken out.
SamplesDrained(samples, outcome) == <<>>

\* ResultPacker.snmp and ResultPacker.http build the mapping and the
\* samples tree as new dicts and pop from those: the samples argument is
\* as it was when add_samples returns.
SamplesAfter(samples, outcome) == samples

receive_samples ==
    /\ rerun.phase = "none"
    /\ \E input \in TwiceInputs :
          rerun' = [phase |-> "received", samples |-> input.samples,
                    host |-> input.host, mode |-> input.mode,
                    first |-> NoOutcome, second |-> NoOutcome]
    /\ UNCHANGED <<db, chords, jobs, cast_call, plan_call, http_call, packer_call>>

reconcile_first ==
    /\ rerun.phase = "received"
    /\ LET outcome == add_samples(rerun.samples, rerun.host, rerun.mode)
       IN  rerun' = [rerun EXCEPT
                        !.phase = "once", !.first = outcome,
                        !.samples = SamplesAfter(@, outcome)]
    /\ UNCHANGED <<db, chords, jobs, cast_call, plan_call, http_call, packer_call>>

reconcile_second ==
    /\ rerun.phase = "once"
    /\ LET outcome == add_samples(rerun.samples, rerun.host, rerun.mode)
       IN  rerun' = [rerun EXCEPT
                        !.phase = "twice", !.second = outcome,
                        !.samples = SamplesAfter(@, outcome)]
    /\ UNCHANGED <<db, chords, jobs, cast_call, plan_call, http_call, packer_call>>

InitTwice == Init

NextTwice ==
    \/ receive_samples
    \/ reconcile_first
    \/ reconcile_second

SpecTwice == InitTwice /\ [][NextTwice]_vars

(***************************************************************************)
(* SpecOrder: add_samples on the chunk results of a host's polls and on    *)
(* the same results presented in another order.  Celery hands the body of  *)
(* a chord the header's results in header order whatever the order the     *)
(* polls complete in; the rearrangements are those of the list itself: the *)
(* chunks reversed, the samples of every chunk reversed, and for results   *)
(* of up to MaxPermuted samples in one chunk every permutation.            *)
(***************************************************************************)
MaxPermuted == 6

Reversed(list) == [i \in 1..Len(list) |-> list[Len(list) + 1 - i]]

Rearranged(samples) ==
    {Reversed(samples),
     [c \in 1..Len(samples) |-> Reversed(samples[c])],
     Reversed([c \in 1..Len(samples) |-> Reversed(samples[c])])}
    \cup IF Len(samples) = 1 /\ Len(samples[1]) <= MaxPermuted
         THEN {<<[i \in 1..Len(samples[1]) |-> samples[1][p[i]]]>> :
                    p \in Permutations(1..Len(samples[1]))}
         ELSE {}

receive_rearranged ==
    /\ rerun.phase = "none"
    /\ \E e \in Rows(aggregator) :
        \E samples \in PollSamples(e.parameters) :
          \E rearranged \in Rearranged(samples) :
            rerun' = [phase |-> "received", samples |-> samples,
                      rearranged |-> rearranged,
                      host |-> e.host, mode |-> TRUE,
                      first |-> NoOutcome, second |-> NoOutcome]
    /\ UNCHANGED <<db, chords, jobs, cast_call, plan_call, http_call, packer_call>>

reconcile_rearranged ==
    /\ rerun.phase = "once"
    /\ LET outcome == add_samples(rerun.rearranged, rerun.host, rerun.mode)
       IN  rerun' = [rerun EXCEPT !.phase = "twice", !.second = outcome]
    /\ UNCHANGED <<db, chords, jobs, cast_call, plan_call, http_call, packer_call>>

InitOrder == InitCycle

NextOrder ==
    \/ receive_rearranged
    \/ reconcile_first
    \/ reconcile_rearranged

SpecOrder == InitOrder /\ [][NextOrder]_vars

(***************************************************************************)
(* SpecPlan: the planner and the slicer as functions.  The schema is drawn *)
(* from PlanSchemas: up to MaxPlanHosts of the hosts a, b (with community) *)
(* and c (without), stored in any order, each with no instance, with an    *)
(* instance of G (scalar, OID), of S (no OID), of E (OID, no parameter) or *)
(* with instances of G and T.  The slicer is applied to the lists of 0 to  *)
(* MaxVector identifiers.                                                  *)
(***************************************************************************)
MaxPlanHosts == 2
MaxVector == 65

PlanGroups ==
    FixtureGroups \o <<[name |-> "E", type |-> SCALAR, oid |-> <<1, 5>>]>>

PlanHostRows ==
    {[name |-> "a", community |-> "public"],
     [name |-> "b", community |-> "public"],
     [name |-> "c", community |-> ""]}

PlanInstanceChoices(name) ==
    {<<>>,
     <<[group |-> "G", host |-> name, oid |-> 0, name |-> ""]>>,
     <<[group |-> "S", host |-> name, oid |-> 0, name |-> ""]>>,
     <<[group |-> "E", host |-> name, oid |-> 0, name |-> ""]>>,
     <<[group |-> "G", host |-> name, oid |-> 0, name |-> ""],
       [group |-> "T", host |-> name, oid |-> 1, name |-> "eth0"]>>}

PlanSchema(hosts, instances) ==
    [groups |-> PlanGroups, parameters |-> FixtureParameters,
     tags |-> <<>>, hosts |-> hosts, instances |-> instances,
     tag_values |-> <<>>]

PlanSchemas ==
    UNION {{PlanSchema(hosts,
                       Concat([k \in 1..Len(hosts) |-> choice[hosts[k].name]]))
                : choice \in
                    {c \in [{hosts[k].name : k \in 1..Len(hosts)} ->
                                UNION {PlanInstanceChoices(n) :
                                        n \in {"a", "b", "c"}}] :
                        \A n \in DOMAIN c : c[n] \in PlanInstanceChoices(n)}}
            : hosts \in InjectiveSeqs(PlanHostRows, MaxPlanHosts)}

Vectors == {[i \in 1..n |-> ToString(i)] : n \in 0..MaxVector}

\* list(aggregator())
run_aggregator ==
    /\ plan_call.phase = "none"
    /\ plan_call' = [phase |-> "planned", plan |-> aggregator,
                     vector |-> <<>>, chunks |-> <<>>]
    /\ UNCHANGED <<db, chords, jobs, cast_call, rerun, http_call, packer_call>>

\* list(chunks(vector))
run_chunks ==
    /\ plan_call.phase = "none"
    /\ \E vector \in Vectors :
          plan_call' = [phase |-> "chunked", plan |-> <<>>,
                        vector |-> vector, chunks |-> chunks(vector)]
    /\ UNCHANGED <<db, chords, jobs, cast_call, rerun, http_call, packer_call>>

InitPlan ==
    /\ db \in PlanSchemas
    /\ chords = NoChords
    /\ jobs = NoJobs
    /\ cast_call = NoCast
    /\ rerun = NoRerun
    /\ plan_call = NoPlan
    /\ http_call = NoHttp
    /\ packer_call = NoPacker

NextPlan ==
    \/ run_aggregator
    \/ run_chunks

SpecPlan == InitPlan /\ [][NextPlan]_vars

(***************************************************************************)
(* SpecClock: the time of the Points.  The Points of the other             *)
(* specifications leave 'time' out; here add_samples is given its          *)
(* timestamp argument, a float of seconds held in tenths, or None, for     *)
(* which it reads the clock.  Two tasks are queued for h1: a push with any *)
(* timestamp of 0 to MaxTimestamp tenths, and a task with a timestamp at   *)
(* the edge of a minute or with none.                                      *)
(***************************************************************************)
MaxTimestamp == 1250

NoTimestamp == [t |-> "None"]

\* A minute that is rounded to the nearest instead of truncated.
tt_nearest(timestamp) == (timestamp.m + 300) \div 600

\* tt = int(timestamp / 60)
tt(timestamp) == TruncDiv(timestamp.m, 600)

\* 'time': tt in the dict of every Point appended
StampPoints(points, time) ==
    [n \in 1..Len(points) |->
        [measurement |-> points[n].measurement, time |-> time,
         fields |-> points[n].fields, tags |-> points[n].tags]]

\* add_samples with its timestamp: the Points, and the write, carry tt.
Stamped(outcome, timestamp) ==
    [outcome EXCEPT
        !.points = StampPoints(@, tt(timestamp)),
        !.writes = [w \in 1..Len(@) |-> StampPoints(@[w], tt(timestamp))]]

\* if timestamp is None: timestamp = (utcnow() - EPOCH).total_seconds()
TimestampOr(timestamp, now) ==
    IF timestamp = NoTimestamp THEN now ELSE timestamp

\* add_samples(samples, host, mode, timestamp)
add_samples_at(samples, name, mode, timestamp) ==
    Stamped(add_samples(samples, name, mode), timestamp)

\* The task k ends with an outcome, having taken its timestamp as at.
Ran(k, outcome, at) ==
    jobs' = [jobs EXCEPT ![k].state = TaskState(outcome), ![k].at = at,
                         ![k].outcome = outcome]

\* A worker runs a queued add_samples task.
run_add_samples_at ==
    \E k \in 1..Len(jobs) :
        \E now \in {FloatV(m) : m \in (MaxTimestamp - 3)..MaxTimestamp} :
            /\ jobs[k].state = PENDING
            /\ jobs[k].timestamp # NoTimestamp => now = FloatV(MaxTimestamp)
            /\ Ran(k, add_samples_at(jobs[k].samples, jobs[k].host,
                                     jobs[k].mode,
                                     TimestampOr(jobs[k].timestamp, now)),
                   TimestampOr(jobs[k].timestamp, now))
            /\ UNCHANGED <<db, chords, cast_call, rerun, plan_call, http_call, packer_call>>

ClockJob(samples, mode, timestamp) ==
    [samples |-> samples, host |-> "h1", mode |-> mode,
     timestamp |-> timestamp, at |-> NoTimestamp,
     state |-> PENDING, outcome |-> NoOutcome]

InitClock ==
    /\ db = Fixture
    /\ chords = NoChords
    /\ \E first \in 0..MaxTimestamp,
          second \in {FloatV(0), FloatV(599), FloatV(600), FloatV(1199),
                      FloatV(1200), NoTimestamp} :
          jobs = <<ClockJob(<<<<"temp", "eth0", IntV(1)>>,
                              <<"cpu", "", IntV(1)>>>>, FALSE, FloatV(first)),
                   IF second = NoTimestamp
                   THEN ClockJob(<<<<<<"1.3.1.1", IntV(1)>>>>,
                                   <<<<"1.2.2.0", IntV(1)>>>>>>, TRUE, second)
                   ELSE ClockJob(<<<<"temp", "eth0", IntV(2)>>,
                                   <<"mem", "", IntV(2)>>>>, FALSE, second)>>
    /\ cast_call = NoCast
    /\ rerun = NoRerun
    /\ plan_call = NoPlan
    /\ http_call = NoHttp
    /\ packer_call = NoPacker

NextClock ==
    \/ run_add_samples_at
    \/ expire_job

SpecClock == InitClock /\ [][NextClock]_vars

(***************************************************************************)
(* SpecPack: one push submission for host h1 reconciled against a schema   *)
(* drawn from PackSchemas.  The instance table of h1 holds up to           *)
(* MaxPackInstances instances, in any order, of G (scalar), S (scalar, no  *)
(* OID) and T (tabular: eth0, eth1, and a second row named eth0, which     *)
(* unique_together (group, host, oid) admits).  The host has no tag value, *)
(* a value for the tag site, or a value for a tag named label, like the    *)
(* indexing parameter of T: TagForm and ParameterCollisionForm each look   *)
(* the other table up before saving, with no constraint in the database,   *)
(* so two concurrent requests create both.                                 *)
(***************************************************************************)
MaxPackInstances == 3

InstanceT2 == [group |-> "T", host |-> "h1", oid |-> 2, name |-> "eth1"]
InstanceTSameName ==
    [group |-> "T", host |-> "h1", oid |-> 2, name |-> "eth0"]

PackInstanceTables ==
    {q \in InjectiveSeqs({InstanceG, InstanceS, InstanceT, InstanceT2,
                          InstanceTSameName}, MaxPackInstances) :
        ~({InstanceT2, InstanceTSameName} \subseteq Rows(q))}

PackTagTables ==
    {<<>>,
     <<[tag |-> "site", host |-> "h1", value |-> "lab"]>>,
     <<[tag |-> "label", host |-> "h1", value |-> "lab"]>>}

PackSchemas ==
    {[groups |-> FixtureGroups, parameters |-> FixtureParameters,
      tags |-> [k \in 1..Len(tag_values) |-> [name |-> tag_values[k].tag]],
      hosts |-> <<[name |-> "h1", community |-> "public"]>>,
      instances |-> instances, tag_values |-> tag_values]
        : instances \in PackInstanceTables, tag_values \in PackTagTables}

\* [parameter, instance, value]
PackSampleList ==
    <<<<"idx", "", IntV(7)>>, <<"cpu", "", FloatV(35)>>,
      <<"temp", "eth0", IntV(1)>>, <<"label", "eth0", StrV(<<"x">>)>>,
      <<"temp", "eth1", IntV(2)>>, <<"label", "eth1", StrV(<<"y">>)>>,
      <<"zzz", "", IntV(1)>>>>

RECURSIVE SubList(_, _, _)
\* The elements of list at the positions of keep, in the order of list.
SubList(list, keep, n) ==
    IF n > Len(list) THEN <<>>
    ELSE (IF n \in keep THEN <<list[n]>> ELSE <<>>)
            \o SubList(list, keep, n + 1)

PackSubmissions ==
    {SubList(PackSampleList, keep, 1) :
        keep \in SUBSET (1..Len(PackSampleList))}

InitPack ==
    /\ db \in PackSchemas
    /\ chords = NoChords
    /\ \E samples \in PackSubmissions :
          jobs = <<[samples |-> samples, host |-> "h1", mode |-> FALSE,
                    state |-> PENDING, outcome |-> NoOutcome]>>
    /\ cast_call = NoCast
    /\ rerun = NoRerun
    /\ plan_call = NoPlan
    /\ http_call = NoHttp
    /\ packer_call = NoPacker

NextPack ==
    \/ run_add_samples
    \/ expire_job

SpecPack == InitPack /\ [][NextPack]_vars

(***************************************************************************)
(* SpecFields: one push submission for h1 on the schema of Spec and on the *)
(* same schema with the parameters of G stored in the order idx, mem, cpu  *)
(* (Parameter has no ordering: group.parameters.all() is in the order of   *)
(* the store).                                                             *)
(***************************************************************************)
MemFirstParameters ==
    <<FixtureParameters[1], FixtureParameters[3], FixtureParameters[2]>>
    \o SubSeq(FixtureParameters, 4, Len(FixtureParameters))

FieldSchemas ==
    {Fixture, [Fixture EXCEPT !.parameters = MemFirstParameters]}

InitFields ==
    /\ db \in FieldSchemas
    /\ chords = NoChords
    /\ \E samples \in SeqsUpTo(PushSamples, MaxSamples) :
          jobs = <<[samples |-> samples, host |-> "h1", mode |-> FALSE,
                    state |-> PENDING, outcome |-> NoOutcome]>>
    /\ cast_call = NoCast
    /\ rerun = NoRerun
    /\ plan_call = NoPlan
    /\ http_call = NoHttp
    /\ packer_call = NoPacker

NextFields ==
    \/ run_add_samples
    \/ expire_job

SpecFields == InitFields /\ [][NextFields]_vars

(***************************************************************************)
(* SpecPacker: one ResultPacker of h1, built by http or by snmp, and up to *)
(* MaxCalls calls of fields(instance), tags(instance) and global_tags on   *)
(* it, in any order and with repetitions.                                  *)
(*   packer_call = [phase, pk, mapping0, calls]                            *)
(*   calls[n] = [method, instance, first, last, ret]: the call, the        *)
(*   positions in pk.uses of the values it popped, and what it returned    *)
(***************************************************************************)
MaxCalls == 4

PackerHost == CHOOSE h \in HostsNamed("h1") : TRUE

PackerSubmissions ==
    {PackSampleList,
     <<<<"cpu", "", BigIntV(1, 400)>>, <<"mem", "", IntV(1)>>,
       <<"temp", "eth0", IntV(1)>>>>,
     <<<<"mem", "", StrV(<<"a", "b", "c">>)>>,
       <<"idx", "", StrV(<<"a", "b", "c">>)>>, <<"bacon", "", IntV(1)>>>>}

PackerInputs ==
    {http(PackerHost, samples) : samples \in PackerSubmissions}
    \cup {snmp(PackerHost, samples) :
            samples \in PollSamples(HostOids(InstancesOf(PackerHost), 1))
                        \cup {<<<<<<"1.9.9.9", IntV(1)>>,
                                  <<"1.2.2.0", IntV(1)>>>>>>}}

new_packer ==
    /\ packer_call.phase = "none"
    /\ \E pk \in PackerInputs :
          packer_call' = [phase |-> "built", pk |-> pk,
                          mapping0 |-> pk.mapping, calls |-> <<>>]
    /\ UNCHANGED <<db, chords, jobs, cast_call, rerun, plan_call, http_call>>

Called(after, method, k) ==
    packer_call' = [packer_call EXCEPT
                      !.pk = after,
                      !.calls = Append(@, [method |-> method, instance |-> k,
                                           first |-> Len(packer_call.pk.uses)
                                                        + 1,
                                           last |-> Len(after.uses),
                                           ret |-> after.ret])]

CanCall ==
    /\ packer_call.phase = "built"
    /\ packer_call.pk.exc = ""
    /\ Len(packer_call.calls) < MaxCalls

call_fields ==
    /\ CanCall
    /\ \E k \in 1..Len(InstancesOf(PackerHost)) :
          Called(fields(packer_call.pk, InstancesOf(PackerHost)[k], k),
                 "fields", k)
    /\ UNCHANGED <<db, chords, jobs, cast_call, rerun, plan_call, http_call>>

call_tags ==
    /\ CanCall
    /\ \E k \in 1..Len(InstancesOf(PackerHost)) :
          Called(tags(packer_call.pk, PackerHost,
                      InstancesOf(PackerHost)[k], k),
                 "tags", k)
    /\ UNCHANGED <<db, chords, jobs, cast_call, rerun, plan_call, http_call>>

call_global_tags ==
    /\ CanCall
    /\ Called(global_tags(packer_call.pk, PackerHost), "global_tags", 0)
    /\ UNCHANGED <<db, chords, jobs, cast_call, rerun, plan_call, http_call>>

InitPacker ==
    /\ db \in CycleSchemas \cup FieldSchemas
    /\ chords = NoChords
    /\ jobs = NoJobs
    /\ cast_call = NoCast
    /\ rerun = NoRerun
    /\ plan_call = NoPlan
    /\ http_call = NoHttp
    /\ packer_call = NoPacker

NextPacker ==
    \/ new_packer
    \/ call_fields
    \/ call_tags
    \/ call_global_tags

SpecPacker == InitPacker /\ [][NextPacker]_vars

(***************************************************************************)
(* SpecNames: Tags created through TagForm and parameters created through  *)
(* ParameterCollisionForm (AddParameterInline), in any order, for groups   *)
(* that exist.                                                             *)
(***************************************************************************)
InitNames ==
    /\ db = [EmptyDb EXCEPT !.groups = FixtureGroups]
    /\ chords = NoChords
    /\ jobs = NoJobs
    /\ cast_call = NoCast
    /\ rerun = NoRerun
    /\ plan_call = NoPlan
    /\ http_call = NoHttp
    /\ packer_call = NoPacker

NextNames ==
    \/ CreateParameter
    \/ CreateTag

SpecNames == InitNames /\ [][NextNames]_vars

(***************************************************************************)
(* SpecPush: the push entry point, views.index, with the request body as   *)
(* it arrives.  A body is bytes that decode or not, text that parses as    *)
(* JSON or not, and then a JSON value: null, a number, a string, an array  *)
(*   [t |-> "list", items |-> sequence]                                    *)
(* or an object                                                            *)
(*   [t |-> "dict", d |-> function of the member names].                   *)
(* Names (host, parameter, instance) are JSON strings of at most           *)
(* NAME_MAX_LENGTH characters, held as TextV.                              *)
(***************************************************************************)
PyNone == [t |-> "None"]
JsonList(items) == [t |-> "list", items |-> items]
JsonObject(d) == [t |-> "dict", d |-> d]

\* value in field.empty_values: None, '', [], (), {}
IsEmptyValue(v) ==
    \/ v = PyNone
    \/ v = StrV(<<>>)
    \/ v = TextV("")
    \/ v.t = "list" /\ v.items = <<>>
    \/ v.t = "dict" /\ DOMAIN v.d = {}

\* data.get(name) of Widget.value_from_datadict
Get(data, name) == IF name \in DOMAIN data.d THEN data.d[name] ELSE PyNone

\* The result of cleaning a form: valid with its cleaned data, invalid, or
\* left by an exception that is no ValidationError.
Cleaned(data) == [ok |-> TRUE, exc |-> "", data |-> data]
Invalid == [ok |-> FALSE, exc |-> "", data |-> <<>>]
Error(exc) == [ok |-> FALSE, exc |-> exc, data |-> <<>>]

\* SampleForm.clean_value: int, bool, str or a finite float
SampleValueAllowed(v) == v.t \in {"int", "bool", "str", "float"}

\* SampleForm(data=row).is_valid() and its cleaned data; a row that is no
\* object has no get().
SampleFormClean(row) ==
    IF row = PyNone THEN Invalid
    ELSE IF row.t # "dict" THEN Error("AttributeError")
    ELSE IF \/ IsEmptyValue(Get(row, "parameter"))
            \/ IsEmptyValue(Get(row, "value"))
            \/ ~SampleValueAllowed(Get(row, "value"))
    THEN Invalid
    ELSE Cleaned(<<Get(row, "parameter").text,
                   IF IsEmptyValue(Get(row, "instance")) THEN ""
                   ELSE Get(row, "instance").text,
                   Get(row, "value")>>)

RECURSIVE CleanRows(_, _)
\* The loop of clean_samples over a list: the first row that is invalid or
\* raises ends it.
CleanRows(rows, cleaned) ==
    IF rows = <<>> THEN Cleaned(cleaned)
    ELSE IF ~SampleFormClean(rows[1]).ok THEN SampleFormClean(rows[1])
    ELSE CleanRows(Tail(rows), Append(cleaned, SampleFormClean(rows[1]).data))

\* SeriesForm.clean_samples: for row in self.data['samples'].  A number is
\* not iterable; a string or an object iterates over strings, which have
\* no get().
clean_samples(samples) ==
    IF samples.t = "list" THEN CleanRows(samples.items, <<>>)
    ELSE IF samples.t \in {"int", "float", "bool"} THEN Error("TypeError")
    ELSE Error("AttributeError")

\* forms.FloatField(min_value=0): float(value), where ValueError and
\* TypeError are validation errors and any other exception leaves the form.
TimestampClean(v) ==
    IF IsEmptyValue(v) \/ v.t \in {"list", "dict"} THEN Invalid
    ELSE IF cast_float(v).exc \in {"ValueError", "TypeError"} THEN Invalid
    ELSE IF cast_float(v).exc # "" THEN Error(cast_float(v).exc)
    ELSE IF cast_float(v).value.m < 0 THEN Invalid
    ELSE Cleaned(cast_float(v).value)

\* forms.Field() with clean_samples
SamplesClean(v) == IF IsEmptyValue(v) THEN Invalid ELSE clean_samples(v)

\* The fields of SeriesForm in their order, given the results of the
\* second and the third: an exception leaves the form where it is raised.
SeriesFields(host, timestamp, samples) ==
    IF timestamp.exc # "" THEN timestamp
    ELSE IF samples.exc # "" THEN samples
    ELSE IF IsEmptyValue(host) \/ ~timestamp.ok \/ ~samples.ok THEN Invalid
    ELSE Cleaned([host |-> host.text, timestamp |-> timestamp.data,
                  samples |-> samples.data])

\* forms.SeriesForm(data=payload).is_valid(): a form without data is
\* unbound and not valid.
SeriesFormClean(payload) ==
    IF payload = PyNone THEN Invalid
    ELSE IF payload.t # "dict" THEN Error("AttributeError")
    ELSE SeriesFields(Get(payload, "host"),
                      TimestampClean(Get(payload, "timestamp")),
                      SamplesClean(Get(payload, "samples")))

NoTask == [queued |-> FALSE]

\* The response of index for a form result, with the task it queued.
Respond(form) ==
    IF form.exc # ""
    THEN [phase |-> "answered", status |-> 500, location |-> FALSE,
          exc |-> form.exc, task |-> NoTask]
    ELSE IF form.ok
    THEN [phase |-> "answered", status |-> 202, location |-> TRUE,
          exc |-> "",
          task |-> [queued |-> TRUE, samples |-> form.data.samples,
                    host |-> form.data.host, mode |-> FALSE,
                    timestamp |-> form.data.timestamp]]
    ELSE [phase |-> "answered", status |-> 400, location |-> FALSE,
          exc |-> "", task |-> NoTask]

\* views.index for a request body
index_response(body) ==
    IF ~body.utf8 THEN Respond(Error("UnicodeDecodeError"))
    ELSE IF ~body.json THEN Respond(Invalid)
    ELSE Respond(SeriesFormClean(body.payload))

\* The request is answered and the task, if any, is queued.
Answer(body, response) ==
    /\ http_call' = [response EXCEPT !.task = NoTask] @@ [body |-> body]
    /\ jobs' = IF response.task.queued
               THEN Append(jobs, [samples |-> response.task.samples,
                                  host |-> response.task.host,
                                  mode |-> response.task.mode,
                                  timestamp |-> response.task.timestamp,
                                  at |-> NoTimestamp, state |-> PENDING,
                                  outcome |-> NoOutcome])
               ELSE jobs

RowInputs ==
    {JsonObject(DictSet(DictSet(EmptyDict, "parameter", TextV("cpu")),
                        "value", IntV(1))),
     JsonObject(DictSet(DictSet(DictSet(EmptyDict, "parameter",
                                        TextV("temp")),
                                "instance", TextV("eth0")),
                        "value", FloatV(15))),
     JsonObject(DictSet(EmptyDict, "value", IntV(1))),
     JsonObject(DictSet(DictSet(EmptyDict, "parameter", TextV("cpu")),
                        "value", PyNone)),
     JsonObject(DictSet(DictSet(EmptyDict, "parameter", TextV("cpu")),
                        "value", JsonList(<<IntV(1)>>))),
     IntV(1), PyNone}

MaxRowsInBody == 2

\* The members a JSON object of a submission may have.
MemberInputs ==
    [host : {PyNone, TextV("h1"), TextV("nohost")},
     timestamp : {PyNone, IntV(0), FloatV(1250), FloatV(-10),
                  StrV(<<"a", "b", "c">>), BigIntV(1, 400)},
     samples : {PyNone, JsonList(<<>>), IntV(5), StrV(<<"a", "b", "c">>)}
                \cup {JsonList(rows) :
                        rows \in SeqsUpTo(RowInputs, MaxRowsInBody)}]

\* The object with the members that are given (PyNone: the member is absent).
ObjectOf(members) ==
    JsonObject([name \in {n \in {"host", "timestamp", "samples"} :
                            members[n] # PyNone} |-> members[name]])

Bodies ==
    {[utf8 |-> FALSE, json |-> FALSE, payload |-> PyNone],
     [utf8 |-> TRUE, json |-> FALSE, payload |-> PyNone]}
    \cup {[utf8 |-> TRUE, json |-> TRUE, payload |-> payload] :
            payload \in {PyNone, IntV(5), JsonList(<<>>)}
                        \cup {ObjectOf(members) : members \in MemberInputs}}

\* A POST to the push entry point; the exploration follows one request.
index_request ==
    \E body \in Bodies :
        /\ http_call = NoHttp
        /\ Answer(body, index_response(body))
        /\ UNCHANGED <<db, chords, cast_call, rerun, plan_call, packer_call>>

InitPush == Init

NextPush ==
    \/ index_request
    \/ run_add_samples_at
    \/ expire_job

SpecPush == InitPush /\ [][NextPush]_vars

(***************************************************************************)
(* Properties of add_samples and of the polling cycle.                     *)
(***************************************************************************)
\* The uses of an outcome, as a set of indexes.
Uses(o) == 1..Len(o.uses)

EmittedSet(o) == {o.emitted[n] : n \in 1..Len(o.emitted)}

\* Instance k has a field: a non-indexing value that was cast.
HasField(o, k) ==
    \E n \in Uses(o) :
        /\ o.uses[n].instance = k
        /\ o.uses[n].into = "fields"
        /\ o.uses[n].cast

\* C1: add_samples never hands write_points a Point whose field set is
\* empty, and builds no Point for an instance none of whose non-indexing
\* samples was present and cast, whatever tag values the instance has.
C1_NoEmptyFieldPoint ==
    \A o \in Outcomes :
        /\ \A w \in 1..Len(o.writes) :
              \A n \in 1..Len(o.writes[w]) : DOMAIN o.writes[w][n].fields # {}
        /\ \A n \in 1..Len(o.points) : DOMAIN o.points[n].fields # {}
        /\ \A k \in EmittedSet(o) : HasField(o, k)

\* A tabular instance whose indexing value became a tag while its only
\* field failed the cast or was absent got no Point, in a reconciliation
\* that wrote the Points of other instances.
C1_Witness ==
    \E o \in Outcomes :
        /\ o.writes # <<>>
        /\ \E n \in Uses(o) :
              /\ o.uses[n].into = "tags"
              /\ o.uses[n].cast
              /\ o.uses[n].instance \notin EmittedSet(o)

\* C2: the reconciliation of a host of a polling cycle has not started
\* while a chunk poll of that host has yet to return, and it is given the
\* results of all the chunks.
C2_ChordBarrier ==
    \A name \in DOMAIN chords :
        chords[name].body.state # PENDING =>
            \A c \in 1..Len(chords[name].header) :
                chords[name].header[c].state = SUCCESS

\* A host polled in two chunks has been reconciled while a chunk poll of
\* another host of the same cycle is still out.
C2_Witness ==
    \E name \in DOMAIN chords :
        /\ chords[name].body.state # PENDING
        /\ Len(chords[name].header) = 2
        /\ \E other \in DOMAIN chords \ {name} :
              \E c \in 1..Len(chords[other].header) :
                  chords[other].header[c].state = PENDING

\* C3: a host one of whose chunk polls suffered a transport failure is not
\* reconciled in that cycle.
C3_FailedHostNotReconciled ==
    \A name \in DOMAIN chords :
        (\E c \in 1..Len(chords[name].header) :
            /\ chords[name].header[c].state # PENDING
            /\ TransportFailed(chords[name].header[c].outcome))
        => chords[name].body.state = PENDING

\* C4: a chunk poll whose transport reported an error ends in failure; it
\* does not return a list of samples.
C4_TransportErrorPropagates ==
    \A name \in DOMAIN chords :
        \A c \in 1..Len(chords[name].header) :
            (/\ chords[name].header[c].state # PENDING
             /\ TransportFailed(chords[name].header[c].outcome))
            => chords[name].header[c].state = FAILURE

\* What add_samples leaves for a host name that is not in the schema: an
\* error in the log, no packer, no Point and no write, and a normal return.
AbortedUnknownHost(o, name) ==
    /\ o.log = <<[level |-> "error", event |-> "host_not_found",
                  host |-> name]>>
    /\ ~o.packer
    /\ o.points = <<>>
    /\ o.writes = <<>>
    /\ o.exc = ""

\* C5: every add_samples invocation, of a chord body or of a push task,
\* that runs when its host name is absent from the schema logs an error and
\* ends without a packer and without a write.
C5_UnknownHostAborts ==
    [][/\ \A name \in DOMAIN chords \cap DOMAIN chords' :
            (/\ chords[name].body.state = PENDING
             /\ chords'[name].body.state # PENDING
             /\ HostsNamed(name) = {})
            => AbortedUnknownHost(chords'[name].body.outcome, name)
       /\ \A k \in DOMAIN jobs \cap DOMAIN jobs' :
            (/\ jobs[k].state = PENDING
             /\ jobs'[k].state # PENDING
             /\ HostsNamed(jobs[k].host) = {})
            => AbortedUnknownHost(jobs'[k].outcome, jobs[k].host)]_vars

\* The body of a chord ran with the samples of its chunk polls after the
\* host was deleted from the schema.
C5_Witness ==
    \E name \in DOMAIN chords :
        /\ chords[name].body.state # PENDING
        /\ ~chords[name].body.outcome.found
        /\ \E c \in 1..Len(chords[name].header) :
              chords[name].header[c].result # <<>>

\* C6: a value that cannot be cast is dropped alone: the reconciliation
\* does not abort, the failure is logged as an error, the parameter is in
\* no Point's tags or fields, and the instance has a Point exactly when it
\* has another field.
C6_CastFailureDroppedAlone ==
    \A o \in Outcomes :
        \A n \in Uses(o) :
            ~o.uses[n].cast =>
                /\ o.exc = ""
                /\ \E l \in 1..Len(o.log) :
                      /\ o.log[l].event = "cannot_cast"
                      /\ o.log[l].value = o.mapping0[o.uses[n].oid]
                /\ \A m \in 1..Len(o.points) :
                      o.uses[n].parameter \notin
                          DOMAIN o.points[m].fields
                              \cup DOMAIN o.points[m].tags
                /\ o.uses[n].instance \in EmittedSet(o)
                      <=> HasField(o, o.uses[n].instance)

\* Use n of the outcome put its value in the n-th Point: as a field or a
\* tag of the instance's own Point, or as a global tag.
ContributesTo(o, n, m) ==
    /\ o.uses[n].cast
    /\ \/ /\ o.uses[n].into = "fields"
          /\ o.emitted[m] = o.uses[n].instance
          /\ o.uses[n].parameter \in DOMAIN o.points[m].fields
       \/ /\ o.uses[n].into = "tags"
          /\ o.emitted[m] = o.uses[n].instance
          /\ o.uses[n].parameter \in DOMAIN o.points[m].tags
       \/ /\ o.uses[n].into = "global_tags"
          /\ o.uses[n].parameter \in DOMAIN o.points[m].tags

\* The identifier is named in the warning for the identifiers left.
ReportedLeft(o, oid) ==
    \E l \in 1..Len(o.log) :
        /\ o.log[l].event = "not_indexed_fields"
        /\ oid \in o.log[l].fields

\* The identifier was popped and the failure of its cast logged.
ReportedUncastable(o, oid) ==
    \E n \in Uses(o) :
        /\ o.uses[n].oid = oid
        /\ ~o.uses[n].cast
        /\ \E l \in 1..Len(o.log) :
              /\ o.log[l].event = "cannot_cast"
              /\ o.log[l].value = o.mapping0[oid]

PlanEntriesOf(name) ==
    {k \in 1..Len(plan_call.plan) : plan_call.plan[k].host = name}

\* The (instance, parameter) pairs of a host whose group has an OID, as
\* positions in the instance table and in the group's parameters.
PollablePairs(host) ==
    {pair \in (1..Len(db.instances)) \X (1..Len(db.parameters)) :
        /\ db.instances[pair[1]].host = host.name
        /\ GroupOf(db.instances[pair[1]]).oid # <<>>
        /\ pair[2] <= Len(ParametersOf(GroupOf(db.instances[pair[1]])))}

PairOid(pair) ==
    compose_oid(GroupOf(db.instances[pair[1]]),
                ParametersOf(GroupOf(db.instances[pair[1]]))[pair[2]],
                db.instances[pair[1]])

Planned(host) == host.community # "" /\ PollablePairs(host) # {}

\* C11: the planner yields exactly one entry for every host that has a
\* non-empty community and at least one (instance, parameter) pair whose
\* group has an OID, the entry carries exactly the composed identifiers of
\* those pairs, and every other host (empty community, no instance, only
\* groups without OID) yields no entry; an empty schema yields an empty plan.
C11_PlanEntries ==
    plan_call.phase = "planned" =>
        /\ \A k \in 1..Len(plan_call.plan) :
                \E host \in Rows(db.hosts) : plan_call.plan[k].host = host.name
        /\ \A host \in Rows(db.hosts) :
                IF Planned(host)
                THEN /\ Cardinality(PlanEntriesOf(host.name)) = 1
                     /\ \A k \in PlanEntriesOf(host.name) :
                          /\ Rows(plan_call.plan[k].parameters)
                                = {PairOid(pair) : pair \in PollablePairs(host)}
                          /\ Len(plan_call.plan[k].parameters)
                                = Cardinality(PollablePairs(host))
                ELSE PlanEntriesOf(host.name) = {}
        /\ db.hosts = <<>> => plan_call.plan = <<>>

\* A plan with an entry, for a schema where another host, without community,
\* has an instance of a group with an OID.
C11_Witness ==
    /\ plan_call.phase = "planned"
    /\ plan_call.plan # <<>>
    /\ \E host \in Rows(db.hosts) :
            host.community = "" /\ PollablePairs(host) # {}

\* Host names in ascending order.
HostNameOrder == <<"a", "b", "c">>
NameRank(name) == CHOOSE r \in 1..Len(HostNameOrder) : HostNameOrder[r] = name

\* C12: the entries of the plan are ordered by host name, ascending.
C12_OrderedByName ==
    plan_call.phase = "planned" =>
        \A i, j \in 1..Len(plan_call.plan) :
            i < j => NameRank(plan_call.plan[i].host)
                        < NameRank(plan_call.plan[j].host)

\* C13: the slicer splits a list into consecutive non-empty slices of at most
\* SNMP_MAX_PARAMETERS_IN_QUERY elements whose concatenation is the list, all
\* but the last of exactly that size; a list of one element more than the
\* size gives two slices, a full one and one of a single element.
C13_Chunks ==
    plan_call.phase = "chunked" =>
        /\ Concat(plan_call.chunks) = plan_call.vector
        /\ \A k \in 1..Len(plan_call.chunks) :
                /\ plan_call.chunks[k] # <<>>
                /\ Len(plan_call.chunks[k]) <= SNMP_MAX_PARAMETERS_IN_QUERY
                /\ k < Len(plan_call.chunks)
                    => Len(plan_call.chunks[k]) = SNMP_MAX_PARAMETERS_IN_QUERY
        /\ Len(plan_call.vector) = SNMP_MAX_PARAMETERS_IN_QUERY + 1
            => /\ Len(plan_call.chunks) = 2
               /\ Len(plan_call.chunks[1]) = SNMP_MAX_PARAMETERS_IN_QUERY
               /\ Len(plan_call.chunks[2]) = 1

\* The list of one element more than a full slice has been sliced.
C13_Witness ==
    /\ plan_call.phase = "chunked"
    /\ Len(plan_call.vector) = SNMP_MAX_PARAMETERS_IN_QUERY + 1
    /\ Len(plan_call.chunks) = 2

(***************************************************************************)
(* Properties of the packer (SpecPack).                                    *)
(***************************************************************************)
\* The push reconciliations that built a packer.
Packed == {k \in 1..Len(jobs) : jobs[k].outcome.packer /\ ~jobs[k].mode}

\* The schema pairs of the host of a job, in http's order.
PairsOf(k) ==
    SchemaPairs(InstancesOf(CHOOSE h \in HostsNamed(jobs[k].host) : TRUE), 1)

\* [parameter name, instance name] of a schema pair.
PairKey(pair) == <<pair[2].name, pair[1].name>>

\* The (parameter, instance) keys a submission carries.
Carried(k) == {<<jobs[k].samples[n][1], jobs[k].samples[n][2]>> :
                    n \in 1..Len(jobs[k].samples)}

\* The value the submission carries for a key (the last one given).
CarriedValue(k, key) ==
    LET last == CHOOSE n \in 1..Len(jobs[k].samples) :
                    /\ <<jobs[k].samples[n][1], jobs[k].samples[n][2]>> = key
                    /\ \A m \in (n + 1)..Len(jobs[k].samples) :
                          <<jobs[k].samples[m][1], jobs[k].samples[m][2]>>
                                # key
    IN  jobs[k].samples[last][3]

RecordedMissing(k) ==
    UNION {Rows(jobs[k].outcome.log[n].elements) :
            n \in {m \in 1..Len(jobs[k].outcome.log) :
                    jobs[k].outcome.log[m].event = "missing_samples"}}

RecordedUnknown(k) ==
    UNION {jobs[k].outcome.log[n].elements :
            n \in {m \in 1..Len(jobs[k].outcome.log) :
                    jobs[k].outcome.log[m].event = "unknown_samples"}}

\* C14: in a push reconciliation a schema pair is recorded as missing if and
\* only if the submission carries no sample for its (parameter name,
\* instance name), a submitted sample is recorded as unknown if and only if
\* it matches no schema pair, every matched sample is in the mapping under
\* its composed identifier, and no sample is both matched and unknown.
C14_MissingUnknownMatched ==
    \A k \in Packed :
        /\ \A n \in 1..Len(PairsOf(k)) :
                PairKey(PairsOf(k)[n]) \in RecordedMissing(k)
                    <=> PairKey(PairsOf(k)[n]) \notin Carried(k)
        /\ \A key \in Carried(k) :
                key \in RecordedUnknown(k)
                    <=> \A n \in 1..Len(PairsOf(k)) :
                            PairKey(PairsOf(k)[n]) # key
        /\ \A n \in 1..Len(PairsOf(k)) :
                PairKey(PairsOf(k)[n]) \in Carried(k)
                    => LET oid == compose_oid(GroupOf(PairsOf(k)[n][1]),
                                              PairsOf(k)[n][2],
                                              PairsOf(k)[n][1])
                       IN  /\ oid \in DOMAIN jobs[k].outcome.mapping0
                           /\ jobs[k].outcome.mapping0[oid]
                                = CarriedValue(k, PairKey(PairsOf(k)[n]))
        /\ \A n \in 1..Len(PairsOf(k)) :
                PairKey(PairsOf(k)[n]) \notin RecordedUnknown(k)

\* The instances of the host have pairwise different names within a group.
NamesDistinct(k) ==
    \A i, j \in 1..Len(PairsOf(k)) :
        PairKey(PairsOf(k)[i]) = PairKey(PairsOf(k)[j])
            => PairsOf(k)[i][1] = PairsOf(k)[j][1]

C14_HoldsForDistinctNames ==
    \A k \in Packed : NamesDistinct(k) => C14_MissingUnknownMatched

\* The instance a Point of a job was built for.
PointInstance(k, n) ==
    InstancesOf(CHOOSE h \in HostsNamed(jobs[k].host) : TRUE)
        [jobs[k].outcome.emitted[n]]

ParameterNamed(name) == CHOOSE p \in Rows(db.parameters) : p.name = name

\* The submission of the example: idx = 7 and cpu = 3.5 for the scalar group
\* G on h1, a host with no other instance and no tag value.
ExampleSubmitted(k) ==
    /\ db.instances = <<InstanceG>>
    /\ db.tag_values = <<>>
    /\ jobs[k].samples = <<<<"idx", "", IntV(7)>>, <<"cpu", "", FloatV(35)>>>>

ExamplePoint ==
    [measurement |-> "G",
     fields |-> DictSet(EmptyDict, "cpu", FloatV(35)),
     tags |-> DictSet(DictSet(EmptyDict, "host", TextV("h1")),
                      "idx", IntV(7))]

\* C15: in every Point each field key is a non-indexing parameter of the
\* group of the Point's instance, no indexing parameter is among the fields,
\* and the values of indexing parameters go to tags only; the submission of
\* idx = 7 (indexing integer) and cpu = 3.5 (float) for a scalar group on h1
\* without tag values gives exactly one Point, with tags {host: h1, idx: 7}
\* and fields {cpu: 3.5}.
C15_TagsAndFieldsSeparated ==
    \A k \in Packed :
        /\ \A n \in 1..Len(jobs[k].outcome.points) :
            /\ \A key \in DOMAIN jobs[k].outcome.points[n].fields :
                \E p \in Rows(ParametersOf(GroupOf(PointInstance(k, n)))) :
                    p.name = key /\ ~p.indexing
            /\ \A p \in Rows(db.parameters) :
                p.indexing
                    => p.name \notin DOMAIN jobs[k].outcome.points[n].fields
        /\ \A u \in 1..Len(jobs[k].outcome.uses) :
                ParameterNamed(jobs[k].outcome.uses[u].parameter).indexing
                    <=> jobs[k].outcome.uses[u].into # "fields"
        /\ ExampleSubmitted(k) => jobs[k].outcome.points = <<ExamplePoint>>

\* The example has been reconciled.
C15_Witness ==
    \E k \in Packed :
        /\ ExampleSubmitted(k)
        /\ jobs[k].outcome.writes = <<<<ExamplePoint>>>>

\* The uses of a job that cast an indexing value into the given dict.
CastInto(k, into) ==
    {u \in 1..Len(jobs[k].outcome.uses) :
        jobs[k].outcome.uses[u].into = into /\ jobs[k].outcome.uses[u].cast}

\* The value a use cast: the caster of the parameter's type applied to the
\* raw value the mapping held.
CastOf(k, u) ==
    casters(ParameterNamed(jobs[k].outcome.uses[u].parameter).type,
            jobs[k].outcome.mapping0[jobs[k].outcome.uses[u].oid]).value

\* The tag values of the host of a job, by tag name.
HostTagValues(k) ==
    {tv \in Rows(db.tag_values) : tv.host = jobs[k].host}

\* The global tags of the host of a job, from the schema and the cast scalar
\* indexing values: tag values, then the host name, then the values.
ExpectedGlobal(k) ==
    [key \in {tv.tag : tv \in HostTagValues(k)} \cup {"host"}
            \cup {jobs[k].outcome.uses[u].parameter :
                    u \in CastInto(k, "global_tags")} |->
        IF \E u \in CastInto(k, "global_tags") :
                jobs[k].outcome.uses[u].parameter = key
        THEN CastOf(k, CHOOSE u \in CastInto(k, "global_tags") :
                            jobs[k].outcome.uses[u].parameter = key)
        ELSE IF key = "host" THEN TextV(jobs[k].host)
        ELSE TextV((CHOOSE tv \in HostTagValues(k) : tv.tag = key).value)]

\* The cast indexing values of the tabular instance at position i.
OwnTags(k, i) ==
    {u \in CastInto(k, "tags") : jobs[k].outcome.uses[u].instance = i}

OwnKeys(k, i) == {jobs[k].outcome.uses[u].parameter : u \in OwnTags(k, i)}

\* C16: within one reconciliation every cast indexing value of a scalar
\* instance of the host is in the tags of every Point of the host, whatever
\* the position of the scalar instance among the instances, and a cast
\* indexing value of a tabular instance is in the tags of that instance's
\* Point only: on any other Point the key is absent, or holds the global
\* tag of that name, or the other instance's own value.
C16_GlobalAndOwnTags ==
    \A k \in Packed :
        /\ \A u \in CastInto(k, "global_tags") :
            /\ GroupOf(InstancesOf(CHOOSE h \in HostsNamed(jobs[k].host) : TRUE)
                        [jobs[k].outcome.uses[u].instance]).type = SCALAR
            /\ \A n \in 1..Len(jobs[k].outcome.points) :
                /\ jobs[k].outcome.uses[u].parameter
                        \in DOMAIN jobs[k].outcome.points[n].tags
                /\ jobs[k].outcome.points[n].tags
                        [jobs[k].outcome.uses[u].parameter] = CastOf(k, u)
        /\ \A u \in CastInto(k, "tags") :
            \A n \in 1..Len(jobs[k].outcome.points) :
                IF jobs[k].outcome.emitted[n] = jobs[k].outcome.uses[u].instance
                THEN /\ GroupOf(PointInstance(k, n)).type = TABULAR
                     /\ jobs[k].outcome.points[n].tags
                            [jobs[k].outcome.uses[u].parameter] = CastOf(k, u)
                ELSE \/ jobs[k].outcome.uses[u].parameter
                            \notin DOMAIN jobs[k].outcome.points[n].tags
                     \/ \E w \in OwnTags(k, jobs[k].outcome.emitted[n]) :
                            /\ jobs[k].outcome.uses[w].parameter
                                    = jobs[k].outcome.uses[u].parameter
                            /\ jobs[k].outcome.points[n].tags
                                    [jobs[k].outcome.uses[u].parameter]
                                        = CastOf(k, w)
                     \/ /\ jobs[k].outcome.uses[u].parameter
                                \notin OwnKeys(k, jobs[k].outcome.emitted[n])
                        /\ jobs[k].outcome.uses[u].parameter
                                \in DOMAIN ExpectedGlobal(k)
                        /\ jobs[k].outcome.points[n].tags
                                [jobs[k].outcome.uses[u].parameter]
                                    = ExpectedGlobal(k)
                                        [jobs[k].outcome.uses[u].parameter]

\* A reconciliation where the scalar instance comes last, after two tabular
\* instances with Points of their own, and its indexing value is on the
\* three Points, while the labels of the tabular instances differ.
C16_Witness ==
    \E k \in Packed :
        /\ Len(jobs[k].outcome.points) = 3
        /\ GroupOf(PointInstance(k, 3)).type = SCALAR
        /\ CastInto(k, "global_tags") # {}
        /\ OwnTags(k, 1) # {}
        /\ OwnTags(k, 2) # {}
        /\ jobs[k].outcome.points[1].tags["label"]
                # jobs[k].outcome.points[2].tags["label"]

\* C17: when a tag key is both in the host's global tags and among an
\* instance's own tags, the Point of that instance carries the instance's
\* value, and the Points of the instances without an own value for the key
\* carry the global value.
C17_InstanceValueWins ==
    \A k \in Packed :
        \A n \in 1..Len(jobs[k].outcome.points) :
            \A key \in DOMAIN ExpectedGlobal(k) :
                /\ key \in DOMAIN jobs[k].outcome.points[n].tags
                /\ IF key \in OwnKeys(k, jobs[k].outcome.emitted[n])
                   THEN \E u \in OwnTags(k, jobs[k].outcome.emitted[n]) :
                            /\ jobs[k].outcome.uses[u].parameter = key
                            /\ jobs[k].outcome.points[n].tags[key]
                                    = CastOf(k, u)
                   ELSE jobs[k].outcome.points[n].tags[key]
                            = ExpectedGlobal(k)[key]

\* The host has a value for a tag named like the indexing parameter of a
\* tabular instance; the instance's Point carries the instance's label,
\* which differs from the tag value, and a Point built after it carries the
\* tag value.
C17_Witness ==
    \E k \in Packed :
        \E n, m \in 1..Len(jobs[k].outcome.points) :
            /\ n < m
            /\ "label" \in DOMAIN ExpectedGlobal(k)
            /\ "label" \in OwnKeys(k, jobs[k].outcome.emitted[n])
            /\ "label" \notin OwnKeys(k, jobs[k].outcome.emitted[m])
            /\ jobs[k].outcome.points[n].tags["label"] = StrV(<<"x">>)
            /\ jobs[k].outcome.points[m].tags["label"] = TextV("lab")

(***************************************************************************)
(* Properties of the end of add_samples (Spec).                            *)
(***************************************************************************)
\* The identifiers of the (instance, parameter) pairs of a schema.
SchemaOids(pairs) ==
    {compose_oid(GroupOf(pairs[n][1]), pairs[n][2], pairs[n][1]) :
        n \in 1..Len(pairs)}

\* The mapping without the identifiers that match no pair of the schema.
Matched(mapping, oids) ==
    [oid \in DOMAIN mapping \cap oids |-> mapping[oid]]

\* What C18 says of the outcome o of a poll reconciliation for host, oids
\* being the identifiers of the host's schema.
LeftoversHarmless(o, host, oids) ==
    /\ DOMAIN o.mapping = DOMAIN o.mapping0 \ oids
    /\ \A n \in Uses(o) : o.uses[n].oid \notin DOMAIN o.mapping
    /\ \A oid \in DOMAIN o.mapping : ReportedLeft(o, oid)
    /\ o.exc = ""
    /\ o.points = Reconcile(host, NewPacker(Matched(o.mapping0, oids),
                                            <<>>)).points
    /\ o.writes = WritePoints(o.points)

\* C18: when the body of a chord reconciles the polled samples of a host,
\* the identifiers left in the mapping are exactly the returned identifiers
\* of no (instance, parameter) pair of the host's schema as it is at that
\* time; they are on no Point, the warning names them, the task does not
\* fail, and the Points are those of the matched samples, all written.
C18_PollLeftovers ==
    [][\A name \in DOMAIN chords \cap DOMAIN chords' :
            (/\ chords[name].body.state = PENDING
             /\ chords'[name].body.state # PENDING
             /\ HostsNamed(name) # {})
            => LeftoversHarmless(
                    chords'[name].body.outcome,
                    CHOOSE h \in HostsNamed(name) : TRUE,
                    SchemaOids(SchemaPairs(
                        InstancesOf(CHOOSE h \in HostsNamed(name) : TRUE),
                        1)))]_vars

\* The body of a chord ran after an instance was deleted: identifiers of
\* the deleted instance were left and reported, and Points were written.
C18_Witness ==
    \E name \in DOMAIN chords :
        /\ chords[name].body.state = SUCCESS
        /\ DOMAIN chords[name].body.outcome.mapping # {}
        /\ chords[name].body.outcome.writes # <<>>
        /\ \A oid \in DOMAIN chords[name].body.outcome.mapping :
              ReportedLeft(chords[name].body.outcome, oid)

\* C19: add_samples issues no write when it built no Point, and exactly one
\* write, carrying all the Points, when it built at least one; never more
\* than one.
C19_OneWrite ==
    \A o \in Outcomes :
        /\ o.points = <<>> => o.writes = <<>>
        /\ o.points # <<>> => o.writes = <<o.points>>
        /\ Len(o.writes) <= 1

\* C19 holds of the invocations that run to their end.
C19_OneWriteWhenNotRaised ==
    \A o \in {x \in Outcomes : x.exc = ""} :
        /\ o.points = <<>> => o.writes = <<>>
        /\ o.points # <<>> => o.writes = <<o.points>>
        /\ Len(o.writes) <= 1

\* C20 as stated: no hand-off to the storage sink holds more than
\* INFLUXDB_BATCH_SIZE Points, and every Point is handed off exactly once.
C20_HandOffsBounded ==
    \A k \in Packed :
        /\ \A w \in 1..Len(jobs[k].outcome.writes) :
                Len(jobs[k].outcome.writes[w]) <= INFLUXDB_BATCH_SIZE
        /\ Concat(jobs[k].outcome.writes) = jobs[k].outcome.points

\* C20: add_samples hands the Points to the storage client in one
\* write_points call that holds all of them, however many, and passes
\* INFLUXDB_BATCH_SIZE as the call's batch_size: the split into batches is
\* left to the client.
C20_OneHandOffWithBatchSize ==
    \A k \in Packed :
        /\ Concat(jobs[k].outcome.writes) = jobs[k].outcome.points
        /\ Len(jobs[k].outcome.hints) = Len(jobs[k].outcome.writes)
        /\ \A w \in 1..Len(jobs[k].outcome.writes) :
                /\ jobs[k].outcome.writes[w] = jobs[k].outcome.points
                /\ jobs[k].outcome.hints[w].batch_size = INFLUXDB_BATCH_SIZE
                /\ jobs[k].outcome.hints[w].batch_size > 0

\* A write_points call was handed more Points than INFLUXDB_BATCH_SIZE.
C20_Witness ==
    \E k \in Packed :
        /\ Len(jobs[k].outcome.writes) = 1
        /\ Len(jobs[k].outcome.writes[1]) > INFLUXDB_BATCH_SIZE
        /\ jobs[k].outcome.hints[1].batch_size = INFLUXDB_BATCH_SIZE

(***************************************************************************)
(* Properties of the time of the Points (SpecClock).                       *)
(***************************************************************************)
\* The tasks that ran.
Stamps == {k \in 1..Len(jobs) : jobs[k].state # PENDING}

\* The whole minutes in a non-negative number of tenths of a second: the q
\* with 600 q <= m < 600 (q + 1).
WholeMinutes(m) == CHOOSE q \in 0..m : 600 * q <= m /\ m < 600 * (q + 1)

\* C21: every Point written by one add_samples invocation carries the same
\* time, the timestamp in seconds truncated to whole minutes, for every
\* non-negative timestamp; two timestamps in the same minute give the same
\* time.
C21_TimeInWholeMinutes ==
    /\ \A k \in Stamps :
        /\ \A w \in 1..Len(jobs[k].outcome.writes) :
            /\ jobs[k].outcome.hints[w].time_precision = "m"
            /\ \A n \in 1..Len(jobs[k].outcome.writes[w]) :
                    jobs[k].outcome.writes[w][n].time
                        = WholeMinutes(jobs[k].at.m)
        /\ jobs[k].timestamp # NoTimestamp => jobs[k].at = jobs[k].timestamp
    /\ \A j, k \in Stamps :
        WholeMinutes(jobs[j].at.m) = WholeMinutes(jobs[k].at.m)
            => \A n \in 1..Len(jobs[j].outcome.points),
                  m \in 1..Len(jobs[k].outcome.points) :
                    jobs[j].outcome.points[n].time
                        = jobs[k].outcome.points[m].time

\* Two invocations wrote two Points each, at 119.9 s and at 60.0 s: the four
\* Points carry minute 1.
C21_Witness ==
    /\ Len(jobs) = 2
    /\ \A k \in 1..2 :
        /\ jobs[k].state = SUCCESS
        /\ Len(jobs[k].outcome.writes) = 1
        /\ Len(jobs[k].outcome.writes[1]) = 2
        /\ jobs[k].outcome.writes[1][1].time = 1
    /\ jobs[1].at = FloatV(1199)
    /\ jobs[2].at = FloatV(600)

(***************************************************************************)
(* Properties of push submissions.                                         *)
(***************************************************************************)
\* The push tasks that ran for a host of the schema.
Pushed == {k \in 1..Len(jobs) : jobs[k].state # PENDING /\ ~jobs[k].mode
                                  /\ jobs[k].outcome.found}

\* The log of a job has an entry for the event.
Logged(k, event, level) ==
    \E l \in 1..Len(jobs[k].outcome.log) :
        /\ jobs[k].outcome.log[l].event = event
        /\ jobs[k].outcome.log[l].level = level

\* The names of the non-indexing parameters of an instance for which the
\* submission carries a value that the caster of the parameter takes.
ValidFields(k, instance) ==
    {p.name : p \in {q \in Rows(ParametersOf(GroupOf(instance))) :
                /\ ~q.indexing
                /\ <<q.name, instance.name>> \in Carried(k)
                /\ casters(q.type,
                           CarriedValue(k, <<q.name, instance.name>>)).exc
                        = ""}}

\* The Points a job wrote for the instance at position i of its host.
WrittenFor(k, i) ==
    {n \in 1..Len(jobs[k].outcome.points) :
        /\ jobs[k].outcome.emitted[n] = i
        /\ jobs[k].outcome.writes = <<jobs[k].outcome.points>>}

\* Every instance with a valid field has its Point written, with the fields
\* supplied and no other.
ValidWritten(k, instances) ==
    \A i \in 1..Len(instances) :
        ValidFields(k, instances[i]) # {}
            => /\ WrittenFor(k, i) # {}
               /\ \A n \in WrittenFor(k, i) :
                    DOMAIN jobs[k].outcome.points[n].fields
                        = ValidFields(k, instances[i])

\* What C22 says of the push task k that ran.
NotAbortedByMissing(k) ==
    /\ RecordedMissing(k) # {} => Logged(k, "missing_samples", "error")
    /\ RecordedUnknown(k) # {} => Logged(k, "unknown_samples", "warning")
    /\ (RecordedMissing(k) # {} \/ RecordedUnknown(k) # {})
            => /\ jobs[k].outcome.exc = ""
               /\ ValidWritten(k, InstancesOf(CHOOSE h \in
                                    HostsNamed(jobs[k].host) : TRUE))

\* The step is the run of the push task k for a host of the schema.
PushRuns(k) ==
    /\ jobs[k].state = PENDING
    /\ jobs'[k].state # PENDING
    /\ ~jobs[k].mode
    /\ HostsNamed(jobs[k].host) # {}

\* C22: missing samples (logged as an error) and unknown samples (logged as
\* a warning) never abort a push submission: a Point is written for every
\* instance of the host with at least one valid field value, holding the
\* fields that were supplied and no other.
C22_MissingUnknownDoNotAbort ==
    [][\A k \in DOMAIN jobs \cap DOMAIN jobs' :
            PushRuns(k) => NotAbortedByMissing(k)']_vars

\* C22 holds of the submissions without a value whose cast raises an
\* exception that values_for_instance does not catch.
C22_HoldsWhenCastsAreCaught ==
    [][\A k \in DOMAIN jobs \cap DOMAIN jobs' :
            (/\ PushRuns(k)
             /\ \A n \in 1..Len(jobs[k].samples) :
                    jobs[k].samples[n][3] # BigIntV(1, 400))
            => NotAbortedByMissing(k)']_vars

\* The step is a request to the push entry point.
Requested == http_call = NoHttp /\ http_call' # NoHttp

\* The task index queues for a valid submission.
QueuedTask(data) ==
    [samples |-> data.samples, host |-> data.host, mode |-> FALSE,
     timestamp |-> data.timestamp, at |-> NoTimestamp, state |-> PENDING,
     outcome |-> NoOutcome]

\* C23: index queues exactly one add_samples task in push mode, with the
\* host, timestamp and samples of the submission, and answers 202 with a
\* Location header, if and only if the body is JSON that passes SeriesForm;
\* any other body is answered 400 and queues no task.
C23_AcceptedOrBadRequest ==
    [][Requested =>
        IF /\ http_call'.body.utf8
           /\ http_call'.body.json
           /\ SeriesFormClean(http_call'.body.payload).ok
        THEN /\ http_call'.status = 202
             /\ http_call'.location
             /\ jobs' = Append(jobs,
                    QueuedTask(SeriesFormClean(http_call'.body.payload).data))
        ELSE /\ http_call'.status = 400
             /\ ~http_call'.location
             /\ jobs' = jobs]_vars

\* C23 without the status of the bodies that are not accepted: a task is
\* queued and 202 answered exactly for the valid submissions, and no other
\* body queues a task.
C23_QueuedIffValid ==
    [][Requested =>
        IF /\ http_call'.body.utf8
           /\ http_call'.body.json
           /\ SeriesFormClean(http_call'.body.payload).ok
        THEN /\ http_call'.status = 202
             /\ http_call'.location
             /\ jobs' = Append(jobs,
                    QueuedTask(SeriesFormClean(http_call'.body.payload).data))
        ELSE /\ http_call'.status \in {400, 500}
             /\ ~http_call'.location
             /\ jobs' = jobs]_vars

\* The entries planned for a host, and the identifiers requested for it by
\* the header tasks of its chord, task after task.
PlannedFor(name) ==
    (CHOOSE e \in Rows(aggregator) : e.host = name).parameters

RequestedFor(name) ==
    Concat([c \in 1..Len(chords[name].header) |->
                chords[name].header[c].parameters])

Occurrences(list, x) == Cardinality({j \in 1..Len(list) : list[j] = x})

\* One chord per planned host, one header task per chunk.
OneTaskPerChunk ==
    chords # NoChords =>
        /\ DOMAIN chords = {e.host : e \in Rows(aggregator)}
        /\ \A name \in DOMAIN chords :
              [c \in 1..Len(chords[name].header) |->
                    chords[name].header[c].parameters]
                = chunks(PlannedFor(name))

\* A task that has run is not run again in the cycle.
RunOnce ==
    \A name \in DOMAIN chords \cap DOMAIN chords' :
        /\ chords[name].body.state # PENDING =>
              chords'[name].body = chords[name].body
        /\ \A c \in 1..Len(chords[name].header) :
              chords[name].header[c].state # PENDING =>
                  chords'[name].header[c] = chords[name].header[c]

ReachedWrite(name) ==
    /\ name \in DOMAIN chords
    /\ chords[name].body.state # PENDING
    /\ chords[name].body.outcome.found
    /\ chords[name].body.outcome.exc = ""

EveryPlannedHostWrites ==
    \A name \in {"h1", "h2"} :
        (name \in DOMAIN chords) ~> ReachedWrite(name)

\* C24: in a polling cycle in which every poll succeeds there is one
\* snmp_harvester task per chunk of every planned host, every planned
\* identifier is requested exactly once, add_samples runs once per planned
\* host, and every planned host eventually reaches the write step.
C24_CycleCompletes ==
    /\ [](OneTaskPerChunk
          /\ (chords # NoChords =>
                \A name \in DOMAIN chords :
                    \A j \in 1..Len(PlannedFor(name)) :
                        Occurrences(RequestedFor(name),
                                    PlannedFor(name)[j]) = 1))
    /\ [][RunOnce]_vars
    /\ EveryPlannedHostWrites

\* What holds of the cycle: the requests of a host are the chunks of its
\* plan, entry by entry (an identifier planned twice is requested twice),
\* every task runs once and every planned host reaches the write step.
C24_EveryEntryRequestedOnce ==
    /\ [](OneTaskPerChunk
          /\ (chords # NoChords =>
                \A name \in DOMAIN chords :
                    RequestedFor(name) = PlannedFor(name)))
    /\ [][RunOnce]_vars
    /\ EveryPlannedHostWrites

\* C25: the Points produced for a host do not depend on the order in which
\* the chunk results, and the samples inside them, are presented to
\* add_samples.
C25_OrderIndependent ==
    rerun.phase = "twice" =>
        /\ rerun.first.points = rerun.second.points
        /\ rerun.first.writes = rerun.second.writes

\* No identifier comes twice in the chunk results.
DistinctIdentifiers(samples) ==
    \A i, j \in 1..Len(Concat(samples)) :
        Concat(samples)[i][1] = Concat(samples)[j][1] => i = j

\* What holds: the order does not matter when every identifier comes once.
C25_OrderIndependentWhenDistinct ==
    (rerun.phase = "twice" /\ DistinctIdentifiers(rerun.samples)) =>
        /\ rerun.first.points = rerun.second.points
        /\ rerun.first.writes = rerun.second.writes

\* Both runs are over on results in a different order, and Points were
\* written.
C25_Reordered ==
    /\ rerun.phase = "twice"
    /\ DistinctIdentifiers(rerun.samples)
    /\ Concat(rerun.samples) # Concat(rerun.rearranged)
    /\ rerun.first.writes # <<>>

\* The cast non-indexing values of the instance at position i.
OwnFields(k, i) ==
    {u \in CastInto(k, "fields") : jobs[k].outcome.uses[u].instance = i}

\* The Points a job built for the instance at position i of its host.
PointsFor(k, i) ==
    {n \in 1..Len(jobs[k].outcome.points) : jobs[k].outcome.emitted[n] = i}

\* The fields of the Point of instance i: its cast values by parameter name.
ExpectedFields(k, i) ==
    [key \in {jobs[k].outcome.uses[u].parameter : u \in OwnFields(k, i)} |->
        CastOf(k, CHOOSE u \in OwnFields(k, i) :
                        jobs[k].outcome.uses[u].parameter = key)]

OnePointPerInstance(k, instances) ==
    \A i \in 1..Len(instances) :
        /\ Cardinality(PointsFor(k, i)) <= 1
        /\ OwnFields(k, i) # {} =>
              /\ Cardinality(PointsFor(k, i)) = 1
              /\ \A n \in PointsFor(k, i) :
                    /\ jobs[k].outcome.points[n].measurement
                            = instances[i].group
                    /\ jobs[k].outcome.points[n].fields
                            = ExpectedFields(k, i)

\* C26: every instance with at least one present, successfully cast
\* non-indexing sample yields exactly one Point, whose measurement is the
\* name of the instance's group and whose fields are exactly those cast
\* values by parameter name; no instance yields more than one Point.
C26_OnePointPerInstance ==
    \A k \in Pushed :
        OnePointPerInstance(k, InstancesOf(CHOOSE h \in
                                    HostsNamed(jobs[k].host) : TRUE))

\* What holds: the same of every reconciliation that runs to its end.
C26_OnePointWhenNotRaised ==
    \A k \in Pushed :
        jobs[k].outcome.exc = "" =>
            OnePointPerInstance(k, InstancesOf(CHOOSE h \in
                                        HostsNamed(jobs[k].host) : TRUE))

\* A reconciliation ran to its end and built the Points of two instances.
C26_TwoPoints ==
    \E k \in Pushed :
        /\ jobs[k].outcome.exc = ""
        /\ Len(jobs[k].outcome.points) = 2

\* The positions of the samples a submission carries for a key.
SamplesFor(k, key) ==
    {n \in 1..Len(jobs[k].samples) :
        <<jobs[k].samples[n][1], jobs[k].samples[n][2]>> = key}

\* The schema pairs of the host of a job that a key names.
PairsNamed(k, key) == {pair \in Rows(PairsOf(k)) : PairKey(pair) = key}

\* C27: when a push submission carries several samples for the same
\* (parameter name, instance name), the last one in submission order is the
\* one reconciled; the earlier ones are overwritten and the key is reported
\* neither as unknown nor as missing.  (A repeated key that names no schema
\* pair is reported as unknown, once.)
C27_LastSampleWins ==
    \A k \in Packed :
        \A key \in Carried(k) :
            Cardinality(SamplesFor(k, key)) > 1 =>
                /\ key \notin RecordedMissing(k)
                /\ \A pair \in PairsNamed(k, key) :
                      /\ jobs[k].outcome.mapping0
                            [compose_oid(GroupOf(pair[1]), pair[2], pair[1])]
                                = CarriedValue(k, key)
                      /\ key \notin RecordedUnknown(k)
                /\ PairsNamed(k, key) = {} => key \in RecordedUnknown(k)

\* A submission gave 'abc' and then 1 for cpu, and the Point of G was
\* written with the field cpu = 1.0.
C27_Witness ==
    \E k \in Packed :
        /\ jobs[k].samples = <<<<"cpu", "", StrV(<<"a", "b", "c">>)>>,
                               <<"cpu", "", IntV(1)>>>>
        /\ jobs[k].outcome.writes # <<>>
        /\ jobs[k].outcome.points[1].fields["cpu"] = FloatV(10)

\* C28: in a push reconciliation the mapping is empty once every instance
\* of the host has been processed, and the 'Not indexed fields' warning is
\* never raised.
C28_PushMappingDrained ==
    \A k \in Packed :
        /\ jobs[k].outcome.exc = "" => jobs[k].outcome.mapping = EmptyDict
        /\ ~Logged(k, "not_indexed_fields", "warning")

\* A push reconciliation that matched a field, a scalar indexing value and
\* a tabular indexing value has run to its end and written Points.
C28_Witness ==
    \E k \in Packed :
        /\ jobs[k].outcome.exc = ""
        /\ {"1.2.1.0", "1.2.2.0", "1.3.2.1"}
                \subseteq DOMAIN jobs[k].outcome.mapping0
        /\ jobs[k].outcome.writes # <<>>

\* The identifiers a packer has popped so far.
Popped(pk) == {pk.uses[u].oid : u \in 1..Len(pk.uses)}

\* Every entry is removed at most once and its value is cast once, when it
\* is removed; an entry that is not removed is as the packer was built with.
RemovedOnce(pk, mapping0) ==
    /\ \A u, v \in 1..Len(pk.uses) : pk.uses[u].oid = pk.uses[v].oid => u = v
    /\ Popped(pk) \subseteq DOMAIN mapping0
    /\ DOMAIN pk.mapping = DOMAIN mapping0 \ Popped(pk)
    /\ \A oid \in DOMAIN pk.mapping : pk.mapping[oid] = mapping0[oid]

\* The values a call popped went where the call puts them: the fields of
\* its instance, the tags of its tabular instance, or the global tags.
ContributedOnce(pk, call) ==
    \A u \in call.first..call.last :
        /\ call.method = "fields" =>
              /\ pk.uses[u].into = "fields"
              /\ pk.uses[u].instance = call.instance
        /\ call.method = "tags" =>
              \/ pk.uses[u].into = "global_tags"
              \/ pk.uses[u].into = "tags"
                    /\ pk.uses[u].instance = call.instance
        /\ call.method = "global_tags" => pk.uses[u].into = "global_tags"
        /\ pk.uses[u].into = "global_tags" =>
              GroupOf(InstancesOf(PackerHost)[pk.uses[u].instance]).type
                    = SCALAR
        /\ (pk.uses[u].cast /\ pk.exc = "") =>
              /\ pk.uses[u].parameter \in DOMAIN call.ret
              /\ call.ret[pk.uses[u].parameter]
                    = casters(ParameterNamed(pk.uses[u].parameter).type,
                              packer_call.mapping0[pk.uses[u].oid]).value

\* C29: whatever the order in which fields, tags and global_tags are called
\* on a packer, each entry of the mapping is removed at most once and never
\* re-inserted, and its value is cast once, on removal: it goes to the
\* global tags, to the tags of one instance or to the fields of one
\* instance, and to no second of them.
C29_EntryConsumedOnce ==
    packer_call.phase = "built" =>
        /\ RemovedOnce(packer_call.pk, packer_call.mapping0)
        /\ \A c \in 1..Len(packer_call.calls) :
              ContributedOnce(packer_call.pk, packer_call.calls[c])

\* On a packer built with four entries or more tags was called first, then
\* fields twice for one instance, the first time popping a value.
C29_Witness ==
    /\ packer_call.phase = "built"
    /\ Len(packer_call.calls) = 4
    /\ packer_call.calls[1].method = "tags"
    /\ packer_call.calls[2].method = "fields"
    /\ packer_call.calls[3].method = "fields"
    /\ packer_call.calls[2].instance = packer_call.calls[3].instance
    /\ packer_call.calls[2].last >= packer_call.calls[2].first
    /\ Cardinality(DOMAIN packer_call.mapping0) >= 4

\* The schema keeps the tag sources apart: no Tag and no indexing parameter
\* is named 'host' or 'instance', and no Tag has the name of an indexing
\* parameter.
TagSourcesApart(schema) ==
    /\ \A t \in Rows(schema.tags) : t.name \notin restricted_names
    /\ \A p \in Rows(schema.parameters) :
          p.indexing =>
              /\ p.name \notin restricted_names
              /\ \A t \in Rows(schema.tags) : t.name # p.name

\* A creation that the form rejects saves nothing.
RejectedSavesNothing ==
    /\ \A row \in TagInputs :
          ~TagFormValid(row) => db' # [db EXCEPT !.tags = Append(@, row)]
    /\ \A row \in ParameterInputs :
          ~ParameterFormValid(row)
              => db' # [db EXCEPT !.parameters = Append(@, row)]

\* C30: after any sequence of TagForm tag creations and
\* ParameterCollisionForm parameter creations no Tag is named 'host' or
\* 'instance', no indexing parameter is named 'host' or 'instance', and no
\* Tag shares its name with an indexing parameter; a rejected creation
\* leaves the schema unchanged.
C30_TagSourcesApart ==
    /\ []TagSourcesApart(db)
    /\ [][RejectedSavesNothing]_vars

\* A Tag and a non-indexing parameter share the name idx, and a
\* non-indexing parameter is named host.
C30_Witness ==
    /\ \E t \in Rows(db.tags) : t.name = "idx"
    /\ \E p \in Rows(db.parameters) : p.name = "idx" /\ ~p.indexing
    /\ \E p \in Rows(db.parameters) : p.name = "host" /\ ~p.indexing

=============================================================================
